---- MODULE Spec2Model ----
(***************************************************************************)
(* Model of the recall-trading-agent rebalancer and signal engine.         *)
(*                                                                         *)
(* Python floats are modelled as exact rationals [n, d] (d > 0, lowest     *)
(* terms); a target allocation is held in percent (30 stands for 0.30).    *)
(* Time is counted in hours (the unit of lookback_hours).                  *)
(***************************************************************************)
EXTENDS Integers, Sequences, FiniteSets, TLC

VARIABLES
    pc,            \* PortfolioManager lifecycle: "new", "ready", "raised"
    cfgFile,       \* the portfolio_config.json on disk (environment)
    config,        \* PortfolioManager.config after __init__
    api,           \* what the remote API answers (environment)
    op,            \* the handler that ran last
    status,        \* last mapping returned by get_portfolio_status (in target order)
    statusSource,  \* which data the mapping was built from
    statusTotal,   \* the total_value used as the denominator
    trades,        \* last list returned by calculate_rebalance_trades
    rebResult,     \* last return value of execute_rebalance
    exLog,         \* what the last execute_rebalance did, in order
    tradeIdx,      \* execute_rebalance: position of the for loop in trades
    amountBound,   \* execute_rebalance: whether its local 'amount' is assigned
    now,           \* time.time(), in hours
    momHistory,    \* MomentumStrategy.price_history
    revHistory,    \* MeanReversionStrategy.price_history
    sigOp,         \* the strategy operation that ran last
    sigToken,      \* the token the last _analyze_* call was given
    sigAnswer,     \* what get_token_price answered in that call
    sigAnswers,    \* what get_token_price answered each token in the last cycle
    sigResult,     \* the Optional[Signal] that call returned
    sigIn,         \* the list last handed to _combine_signals_by_symbol
    sigOut,        \* the list it returned
    sigTrades,     \* the execute_trade calls of the last execute_trading_signals
    clock,         \* time.time(), in seconds, as the MarketDataProvider reads it
    priceCache,    \* MarketDataProvider.price_cache
    cacheCall,     \* the last MarketDataProvider.get_token_price call
    agent,         \* TradingAgent.start: where it is, what it was answered, its jobs
    lastPrices,    \* PriceMonitor.last_prices
    monitorOut,    \* the last PriceMonitor.monitor_prices call
    sizing         \* the last calculate_position_size calls: arguments and results

rebVars == <<pc, cfgFile, config, api, op, status, statusSource, statusTotal,
             trades, rebResult, exLog, tradeIdx, amountBound>>

sigVars == <<now, momHistory, revHistory, sigOp, sigToken, sigAnswer, sigAnswers, sigResult,
             sigIn, sigOut>>

dataVars == <<clock, priceCache, cacheCall>>

monitorVars == <<lastPrices, monitorOut>>

agentVars == <<sigTrades, dataVars, agent, monitorVars, sizing>>

vars == <<rebVars, sigVars, agentVars>>

-----------------------------------------------------------------------------
(* Exact arithmetic standing for Python float arithmetic                   *)

Abs(x) == IF x < 0 THEN -x ELSE x

RECURSIVE GCD(_, _)
GCD(a, b) == IF b = 0 THEN a ELSE GCD(b, a % b)

\* a / b for b # 0, in lowest terms with a positive denominator
Rat(a, b) ==
    LET g == GCD(Abs(a), Abs(b))
        s == IF b < 0 THEN -1 ELSE 1
    IN  [n |-> s * (a \div g), d |-> s * (b \div g)]

R(i) == [n |-> i, d |-> 1]
Zero == R(0)
One == R(1)

\* the outcome of a float division that raised ZeroDivisionError
DivByZero == [n |-> 0, d |-> 0]

RAdd(x, y) == Rat(x.n * y.d + y.n * x.d, x.d * y.d)
RSub(x, y) == Rat(x.n * y.d - y.n * x.d, x.d * y.d)
RMul(x, y) == Rat(x.n * y.n, x.d * y.d)
RNeg(x) == [n |-> -x.n, d |-> x.d]
RAbs(x) == [n |-> Abs(x.n), d |-> x.d]
RLt(x, y) == x.n * y.d < y.n * x.d
RLe(x, y) == x.n * y.d <= y.n * x.d
RMin(x, y) == IF RLt(y, x) THEN y ELSE x
RDiv(x, y) == IF y.n = 0 THEN DivByZero ELSE Rat(x.n * y.d, x.d * y.n)

\* a percentage as a fraction: 30 -> 0.30
Pct(p) == Rat(p, 100)

-----------------------------------------------------------------------------
(* Configuration: config/portfolio_config.json                             *)

NoChain == "None"
NoAddress == [chain |-> "None", symbol |-> "None"]

\* a token address of trading_pairs; one address per (chain, symbol) entry
Address(chain, symbol) == [chain |-> chain, symbol |-> symbol]

EthAll == [chain |-> "ethereum", tokens |-> {"USDC", "WETH", "LINK", "UNI"}]
EthMain == [chain |-> "ethereum", tokens |-> {"USDC", "WETH"}]
EthUsdc == [chain |-> "ethereum", tokens |-> {"USDC"}]
SolMain == [chain |-> "solana", tokens |-> {"USDC", "SOL"}]

T(sym, p) == [symbol |-> sym, target_allocation |-> p]

\* target_allocations (in file order) and trading_pairs (in file order)
ConfigBodies ==
    { [targets |-> <<T("USDC", 30), T("SOL", 40), T("WETH", 30)>>,
       pairs |-> <<EthMain, SolMain>>],
      [targets |-> <<T("USDC", 40), T("WETH", 30), T("LINK", 20), T("UNI", 10)>>,
       pairs |-> <<EthAll>>],
      [targets |-> <<T("USDC", 30), T("WETH", 30)>>,
       pairs |-> <<EthMain>>],
      [targets |-> <<T("USDC", 40), T("WETH", 30), T("LINK", 30)>>,
       pairs |-> <<EthUsdc, SolMain>>] }

\* (rebalance_threshold in percent, min_trade_amount in USD)
Limits == { <<5, 10>>, <<1, 50>> }

Configs ==
    { [targets |-> b.targets, pairs |-> b.pairs,
       rebalance_threshold |-> l[1], min_trade_amount |-> l[2]] :
         b \in ConfigBodies, l \in Limits }

NoConfig ==
    [targets |-> <<>>, pairs |-> <<>>, rebalance_threshold |-> 0, min_trade_amount |-> 0]

\* the file __init__ opens: absent, not JSON, or a JSON object
ConfigFiles ==
    { [kind |-> "missing", cfg |-> NoConfig], [kind |-> "badjson", cfg |-> NoConfig] }
    \cup { [kind |-> "ok", cfg |-> c] : c \in Configs }

\* _load_config: the parsed file, or the exception it re-raises
LoadConfig(file) ==
    IF file.kind = "missing" THEN [raised |-> "FileNotFoundError", cfg |-> NoConfig]
    ELSE IF file.kind = "badjson" THEN [raised |-> "JSONDecodeError", cfg |-> NoConfig]
    ELSE [raised |-> "no", cfg |-> file.cfg]

RECURSIVE SumTargets(_, _)
SumTargets(ts, i) ==
    IF i > Len(ts) THEN 0 ELSE ts[i].target_allocation + SumTargets(ts, i + 1)

\* _get_token_chain: the first chain of trading_pairs that lists the symbol
RECURSIVE ChainFrom(_, _, _)
ChainFrom(pairs, symbol, i) ==
    IF i > Len(pairs) THEN NoChain
    ELSE IF symbol \in pairs[i].tokens THEN pairs[i].chain
    ELSE ChainFrom(pairs, symbol, i + 1)

GetTokenChain(cfg, symbol) == ChainFrom(cfg.pairs, symbol, 1)

\* _get_token_address: the address under the first chain that lists the symbol
GetTokenAddress(cfg, symbol) ==
    LET c == ChainFrom(cfg.pairs, symbol, 1)
    IN  IF c = NoChain THEN NoAddress ELSE Address(c, symbol)

-----------------------------------------------------------------------------
(* The remote API as the PortfolioManager sees it                          *)

\* one entry of the portfolio endpoint's 'tokens'
Tok(sym, chain, v) == [symbol |-> sym, chain |-> chain, value |-> v]

\* one Balance of get_balances
Bal(sym, chain, amt, usd) == [symbol |-> sym, chain |-> chain, amount |-> amt, usd_value |-> usd]

RECURSIVE SumValues(_, _)
SumValues(tokens, i) ==
    IF i > Len(tokens) THEN 0 ELSE tokens[i].value + SumValues(tokens, i + 1)

Portfolio(tokens) == [kind |-> "ok", totalValue |-> SumValues(tokens, 1), tokens |-> tokens]

PortfolioRaises == [kind |-> "raise", totalValue |-> 0, tokens |-> <<>>]

\* answers of GET /agent/portfolio with a positive totalValue
FundedPortfolios ==
    { Portfolio(<<Tok("USDC", "evm", a), Tok("WETH", "evm", b), Tok("LINK", "evm", c),
                  Tok("UNI", "evm", 140), Tok("SOL", "svm", e)>>) :
        a \in {140, 520}, b \in {200, 520}, c \in {140, 200}, e \in {0, 200} }
    \cup { Portfolio(<<Tok("USDC", "base", 520)>>),
           Portfolio(<<Tok("USDC", "evm", 520), Tok("USDC", "svm", 140),
                       Tok("WETH", "evm", 200), Tok("SOL", "svm", 140)>>) }

\* answers with totalValue 0: get_portfolio_status goes on to the balances
EmptyPortfolio == Portfolio(<<>>)

BalancesRaise == [kind |-> "raise", list |-> <<>>]

Balances(list) == [kind |-> "ok", list |-> list]

\* answers of GET /agent/balances (amount in tokens, usd_value as reported)
BalanceAnswers ==
    { BalancesRaise,
      Balances(<<>>),
      Balances(<<Bal("USDC", "evm", 1000, 1000), Bal("WETH", "evm", 1, 3500)>>),
      Balances(<<Bal("USDC", "evm", 520, 520), Bal("WETH", "evm", 0, 0),
                 Bal("SOL", "svm", 2, 320)>>),
      Balances(<<Bal("LINK", "evm", 50, 520), Bal("UNI", "evm", 20, 140)>>),
      Balances(<<Bal("USDC", "evm", 100, 520), Bal("WETH", "evm", 0, 200),
                 Bal("LINK", "evm", 10, 140), Bal("UNI", "evm", 10, 140)>>),
      Balances(<<Bal("USDC", "evm", 1000, 0), Bal("SOL", "svm", 4, 0)>>) }

ApiAnswers ==
    { [portfolio |-> p, balances |-> Balances(<<>>)] : p \in FundedPortfolios }
    \cup { [portfolio |-> PortfolioRaises, balances |-> Balances(<<>>)] }
    \cup { [portfolio |-> EmptyPortfolio, balances |-> b] : b \in BalanceAnswers }

\* the mock balances get_portfolio_status substitutes when a call raises
MockBalances ==
    <<Bal("USDC", "ethereum", 1000, 1000), Bal("WETH", "ethereum", 0, 2000),
      Bal("SOL", "solana", 10, 500)>>

-----------------------------------------------------------------------------
(* PortfolioManager.get_portfolio_status                                   *)

\* the division without its guard
AllocationUnguarded(current_value, total_value) ==
    RDiv(R(current_value), R(total_value))

\* current_value / total_value if total_value > 0 else 0.0
Allocation(current_value, total_value) ==
    IF total_value > 0 THEN RDiv(R(current_value), R(total_value)) ELSE Zero

\* one PortfolioTarget
PortfolioTarget(target, current_value, total_value) ==
    LET current_allocation == Allocation(current_value, total_value)
    IN  [symbol |-> target.symbol,
         target_allocation |-> target.target_allocation,
         current_allocation |-> current_allocation,
         current_value |-> current_value,
         drift |-> IF current_allocation = DivByZero THEN DivByZero
                   ELSE RSub(current_allocation, Pct(target.target_allocation))]

\* 'evm' -> 'ethereum', 'svm' -> 'solana', anything else unchanged
MappedChain(chain) ==
    IF chain = "evm" THEN "ethereum" ELSE IF chain = "svm" THEN "solana" ELSE chain

ConfiguredTokens(cfg) == UNION { cfg.pairs[i].tokens : i \in 1..Len(cfg.pairs) }
ConfiguredChains(cfg) == { cfg.pairs[i].chain : i \in 1..Len(cfg.pairs) }

\* a portfolio token counts if its symbol is configured and its chain is configured
Included(cfg, token) ==
    /\ token.symbol \in ConfiguredTokens(cfg)
    /\ MappedChain(token.chain) \in ConfiguredChains(cfg)

\* token_values[symbol] after the loop over the portfolio's tokens (0 when absent)
RECURSIVE TokenValue(_, _, _, _)
TokenValue(cfg, tokens, symbol, i) ==
    IF i > Len(tokens) THEN 0
    ELSE (IF tokens[i].symbol = symbol /\ Included(cfg, tokens[i]) THEN tokens[i].value ELSE 0)
         + TokenValue(cfg, tokens, symbol, i + 1)

\* total_value after the loop: every included token, targeted or not
RECURSIVE IncludedTotal(_, _, _)
IncludedTotal(cfg, tokens, i) ==
    IF i > Len(tokens) THEN 0
    ELSE (IF Included(cfg, tokens[i]) THEN tokens[i].value ELSE 0)
         + IncludedTotal(cfg, tokens, i + 1)

ProcessPortfolioData(cfg, portfolio) ==
    LET total_value == IncludedTotal(cfg, portfolio.tokens, 1)
    IN  [source |-> "portfolio",
         total |-> total_value,
         targets |-> [i \in 1..Len(cfg.targets) |->
                        PortfolioTarget(cfg.targets[i],
                                        TokenValue(cfg, portfolio.tokens, cfg.targets[i].symbol, 1),
                                        total_value)]]

\* the rough price _calculate_portfolio_value_from_balances applies to a balance
RoughPrice(symbol) ==
    IF symbol \in {"USDC", "USDbC"} THEN 1
    ELSE IF symbol = "SOL" THEN 150
    ELSE IF symbol \in {"WETH", "ETH"} THEN 3500
    ELSE 0

RECURSIVE CalculatePortfolioValueFromBalances(_, _)
CalculatePortfolioValueFromBalances(balances, i) ==
    IF i > Len(balances) THEN 0
    ELSE balances[i].amount * RoughPrice(balances[i].symbol)
         + CalculatePortfolioValueFromBalances(balances, i + 1)

RECURSIVE SumUsdValue(_, _)
SumUsdValue(balances, i) ==
    IF i > Len(balances) THEN 0 ELSE balances[i].usd_value + SumUsdValue(balances, i + 1)

\* next((b for b in balances if b.token.symbol == symbol), None), then its usd_value or 0.0
RECURSIVE BalanceValue(_, _, _)
BalanceValue(balances, symbol, i) ==
    IF i > Len(balances) THEN 0
    ELSE IF balances[i].symbol = symbol THEN balances[i].usd_value
    ELSE BalanceValue(balances, symbol, i + 1)

\* what get_portfolio_status does when get_portfolio or get_balances raises
OnApiFailure ==
    [source |-> "mock", balances |-> MockBalances, total |-> SumUsdValue(MockBalances, 1)]

\* the balances and the total the status is computed from when the portfolio
\* endpoint gave no positive totalValue
BalancesData(a) ==
    IF a.portfolio.kind = "raise" \/ a.balances.kind = "raise" THEN OnApiFailure
    ELSE [source |-> "balances", balances |-> a.balances.list,
          total |-> CalculatePortfolioValueFromBalances(a.balances.list, 1)]

GetPortfolioStatus(cfg, a) ==
    IF a.portfolio.kind = "ok" /\ a.portfolio.totalValue > 0
    THEN ProcessPortfolioData(cfg, a.portfolio)
    ELSE LET data == BalancesData(a)
         IN  [source |-> data.source,
              total |-> data.total,
              targets |-> [i \in 1..Len(cfg.targets) |->
                             PortfolioTarget(cfg.targets[i],
                                             BalanceValue(data.balances, cfg.targets[i].symbol, 1),
                                             data.total)]]

-----------------------------------------------------------------------------
(* PortfolioManager.calculate_rebalance_trades                             *)

\* sum(target.current_value for target in portfolio_status.values())
RECURSIVE TotalPortfolioValue(_, _)
TotalPortfolioValue(targets, i) ==
    IF i > Len(targets) THEN 0
    ELSE targets[i].current_value + TotalPortfolioValue(targets, i + 1)

\* abs(target.drift) > self.rebalance_threshold
DriftExceeds(cfg, target) == RLt(Pct(cfg.rebalance_threshold), RAbs(target.drift))

\* target.target_allocation * total_portfolio_value - target.current_value
ValueDiff(target, total_portfolio_value) ==
    RSub(RMul(Pct(target.target_allocation), R(total_portfolio_value)), R(target.current_value))

\* value_diff > self.min_trade_amount
IsUnder(cfg, value_diff) == RLt(R(cfg.min_trade_amount), value_diff)

\* value_diff < -self.min_trade_amount
IsOver(cfg, value_diff) == RLt(value_diff, R(-cfg.min_trade_amount))

Candidate(symbol, amount) == [symbol |-> symbol, amount |-> amount]

\* under_allocated, in the order of portfolio_status
RECURSIVE UnderAllocated(_, _, _, _)
UnderAllocated(cfg, targets, tpv, i) ==
    IF i > Len(targets) THEN <<>>
    ELSE LET value_diff == ValueDiff(targets[i], tpv)
         IN  (IF DriftExceeds(cfg, targets[i]) /\ IsUnder(cfg, value_diff)
              THEN <<Candidate(targets[i].symbol, value_diff)>> ELSE <<>>)
             \o UnderAllocated(cfg, targets, tpv, i + 1)

\* over_allocated, in the order of portfolio_status
RECURSIVE OverAllocated(_, _, _, _)
OverAllocated(cfg, targets, tpv, i) ==
    IF i > Len(targets) THEN <<>>
    ELSE LET value_diff == ValueDiff(targets[i], tpv)
         IN  (IF DriftExceeds(cfg, targets[i]) /\ ~IsUnder(cfg, value_diff) /\ IsOver(cfg, value_diff)
              THEN <<Candidate(targets[i].symbol, RAbs(value_diff))>> ELSE <<>>)
             \o OverAllocated(cfg, targets, tpv, i + 1)

\* a pairing loop that does not compare the chains
SameChainUnchecked(cfg, over_symbol, under_symbol) == TRUE

\* from_chain == to_chain
SameChain(cfg, over_symbol, under_symbol) ==
    GetTokenChain(cfg, over_symbol) = GetTokenChain(cfg, under_symbol)

\* a pairing loop that does not compare the amount with the minimum
LargeEnoughUnchecked(cfg, trade_amount) == TRUE

\* trade_amount >= self.min_trade_amount
LargeEnough(cfg, trade_amount) == RLe(R(cfg.min_trade_amount), trade_amount)

Trade(from_symbol, to_symbol, usd_amount) ==
    [from_symbol |-> from_symbol, to_symbol |-> to_symbol, usd_amount |-> usd_amount]

\* the inner loop for one over-allocated asset: over_amount is decremented, the
\* under_amount of each pair is the loop's own copy of the list entry
RECURSIVE PairWithUnder(_, _, _, _, _, _)
PairWithUnder(cfg, over_symbol, over_amount, unders, j, acc) ==
    IF j > Len(unders) THEN acc
    ELSE LET under_amount == unders[j].amount
             trade_amount == RMin(over_amount, under_amount)
         IN  IF /\ RLt(Zero, over_amount)
                /\ RLt(Zero, under_amount)
                /\ SameChain(cfg, over_symbol, unders[j].symbol)
                /\ LargeEnough(cfg, trade_amount)
             THEN PairWithUnder(cfg, over_symbol, RSub(over_amount, trade_amount), unders, j + 1,
                                Append(acc, Trade(over_symbol, unders[j].symbol, trade_amount)))
             ELSE PairWithUnder(cfg, over_symbol, over_amount, unders, j + 1, acc)

RECURSIVE PairAll(_, _, _, _, _)
PairAll(cfg, overs, unders, i, acc) ==
    IF i > Len(overs) THEN acc
    ELSE PairAll(cfg, overs, unders, i + 1,
                 PairWithUnder(cfg, overs[i].symbol, overs[i].amount, unders, 1, acc))

\* the trades computed from one status mapping
RebalanceTrades(cfg, targets) ==
    LET tpv == TotalPortfolioValue(targets, 1)
    IN  PairAll(cfg, OverAllocated(cfg, targets, tpv, 1), UnderAllocated(cfg, targets, tpv, 1),
                1, <<>>)

-----------------------------------------------------------------------------
(* PortfolioManager.execute_rebalance                                      *)

PriceRaises == [kind |-> "raise", value |-> 0]
PriceAbsent == [kind |-> "none", value |-> 0]
PriceOf(v) == [kind |-> "price", value |-> v]

\* what the API does for one trade of the loop: the answer of get_token_price
\* (None, a price that is not positive, a positive price, or an exception that
\* is no RequestException) and whether execute_trade raises
TradeAnswers ==
    { [price |-> PriceRaises, trade |-> "ok"],
      [price |-> PriceAbsent, trade |-> "ok"],
      [price |-> PriceOf(0), trade |-> "ok"],
      [price |-> PriceOf(4), trade |-> "ok"],
      [price |-> PriceOf(4), trade |-> "raise"] }

Event(ev, i, from_token, to_token, amount) ==
    [ev |-> ev, trade |-> i, from_token |-> from_token, to_token |-> to_token, amount |-> amount]

Note(ev, i) == Event(ev, i, NoAddress, NoAddress, Zero)

\* not from_token or not to_token
AddressMissing(from_token, to_token) == from_token = NoAddress \/ to_token = NoAddress

\* from_price is None or from_price <= 0
PriceUnusable(price) == price.kind = "none" \/ price.value <= 0

\* amount >= self.min_trade_amount / from_price
AmountLargeEnough(cfg, amount, from_price) ==
    RLe(RDiv(R(cfg.min_trade_amount), R(from_price)), amount)

\* One iteration of the for loop over the trades. bound says whether the local
\* variable 'amount' has been assigned by an earlier iteration: the except handler
\* formats it, and raises UnboundLocalError into the outer handler when it has not.
ProcessTrade(cfg, t, i, answer, bound) ==
    LET from_token == GetTokenAddress(cfg, t.from_symbol)
        to_token == GetTokenAddress(cfg, t.to_symbol)
        from_chain == GetTokenChain(cfg, t.from_symbol)
        to_chain == GetTokenChain(cfg, t.to_symbol)
        from_price == answer.price
        amount == RDiv(t.usd_amount, R(from_price.value))
        Continue(events, b) == [events |-> events, bound |-> b, aborted |-> FALSE]
    IN  IF AddressMissing(from_token, to_token)
        THEN Continue(<<Note("no_address", i)>>, bound)
        ELSE IF from_chain # to_chain
        THEN Continue(<<Note("cross_chain", i)>>, bound)
        ELSE IF from_price.kind = "raise"
        THEN IF bound
             THEN Continue(<<Note("price_raised", i)>>, bound)
             ELSE [events |-> <<Note("price_raised", i), Note("aborted", i)>>,
                   bound |-> bound, aborted |-> TRUE]
        ELSE IF PriceUnusable(from_price)
        THEN Continue(<<Note("no_price", i)>>, bound)
        ELSE IF ~AmountLargeEnough(cfg, amount, from_price.value)
        THEN Continue(<<Note("too_small", i)>>, TRUE)
        ELSE IF answer.trade = "raise"
        THEN Continue(<<Event("submit_failed", i, from_token, to_token, amount)>>, TRUE)
        ELSE Continue(<<Event("submitted", i, from_token, to_token, amount), Note("sleep", i)>>,
                      TRUE)

-----------------------------------------------------------------------------
(* The handlers as actions                                                 *)

\* PortfolioManager.__init__: loads the file and keeps what it holds
Construct ==
    /\ pc = "new"
    /\ LET loaded == LoadConfig(cfgFile)
       IN  /\ pc' = IF loaded.raised = "no" THEN "ready" ELSE "raised"
           /\ config' = loaded.cfg
    /\ op' = "init"
    /\ UNCHANGED <<cfgFile, api, status, statusSource, statusTotal, trades, rebResult,
                   exLog, tradeIdx, amountBound, sigVars, agentVars>>

GetPortfolioStatusCall ==
    /\ pc = "ready"
    /\ LET s == GetPortfolioStatus(config, api)
       IN  /\ status' = s.targets
           /\ statusSource' = s.source
           /\ statusTotal' = s.total
    /\ op' = "get_portfolio_status"
    /\ UNCHANGED <<pc, cfgFile, config, api, trades, rebResult, exLog, tradeIdx, amountBound, sigVars, agentVars>>

CalculateRebalanceTradesCall ==
    /\ pc = "ready"
    /\ LET s == GetPortfolioStatus(config, api)
       IN  /\ status' = s.targets
           /\ statusSource' = s.source
           /\ statusTotal' = s.total
           /\ trades' = RebalanceTrades(config, s.targets)
    /\ op' = "calculate_rebalance_trades"
    /\ UNCHANGED <<pc, cfgFile, config, api, rebResult, exLog, tradeIdx, amountBound, sigVars, agentVars>>

\* execute_rebalance up to the for loop: 'if not trades: return True'
ExecuteRebalanceCall ==
    /\ pc = "ready"
    /\ LET s == GetPortfolioStatus(config, api)
           ts == RebalanceTrades(config, s.targets)
       IN  /\ status' = s.targets
           /\ statusSource' = s.source
           /\ statusTotal' = s.total
           /\ trades' = ts
           /\ pc' = IF ts = <<>> THEN "ready" ELSE "trading"
           /\ rebResult' = IF ts = <<>> THEN "True" ELSE "running"
    /\ exLog' = <<>>
    /\ tradeIdx' = 1
    /\ amountBound' = FALSE
    /\ op' = "execute_rebalance"
    /\ UNCHANGED <<cfgFile, config, api, sigVars, agentVars>>

\* execute_rebalance, one iteration of the loop and, after the last, 'return True'
ExecuteRebalanceTrade ==
    /\ pc = "trading"
    /\ \E answer \in TradeAnswers :
         LET r == ProcessTrade(config, trades[tradeIdx], tradeIdx, answer, amountBound)
             last == r.aborted \/ tradeIdx = Len(trades)
         IN  /\ exLog' = exLog \o r.events
             /\ amountBound' = r.bound
             /\ tradeIdx' = tradeIdx + 1
             /\ pc' = IF last THEN "ready" ELSE "trading"
             /\ rebResult' = IF r.aborted THEN "False" ELSE IF last THEN "True" ELSE "running"
    /\ UNCHANGED <<cfgFile, config, api, op, status, statusSource, statusTotal, trades, sigVars, agentVars>>

-----------------------------------------------------------------------------
(* Token catalog and strategy configuration: config/trading_tokens.json     *)

TokenInfo(symbol, chain, category, volatility_expected, enabled) ==
    [symbol |-> symbol, chain |-> chain, category |-> category,
     volatility_expected |-> volatility_expected, enabled |-> enabled]

\* TokenConfigManager.tokens, in the order of the file; WETH is listed on two chains
Catalog ==
    <<TokenInfo("USDC", "ethereum", "stablecoin", "low", TRUE),
      TokenInfo("WETH", "ethereum", "major", "high", TRUE),
      TokenInfo("LINK", "ethereum", "defi", "high", FALSE),
      TokenInfo("WETH", "base", "defi", "medium", TRUE),
      TokenInfo("SOL", "solana", "major", "high", TRUE)>>

\* strategy_config.momentum_strategy.thresholds (no 'default' entry)
MomentumThresholds == [major |-> Rat(4, 100)]

\* strategy_config.mean_reversion_strategy.z_score_thresholds (no 'default' entry)
ZScoreThresholds == [major |-> Rat(5, 2)]

\* risk_management.volatility_multipliers
VolatilityMultipliers == [high |-> Rat(3, 2)]

\* momentum_strategy.lookback_hours and mean_reversion_strategy.lookback_hours
MomentumLookback == 3
ReversionLookback == 10

\* the least number of samples _analyze_mean_reversion computes statistics from
MinReversionSamples == 10

\* get_non_stablecoin_tokens: enabled and not a stablecoin, in catalog order
Tradeable ==
    SelectSeq(Catalog, LAMBDA tk : tk.enabled /\ tk.category # "stablecoin")

\* thresholds.get(self.category, thresholds.get('default', 0.05))
GetMomentumThreshold(token) ==
    IF token.category \in DOMAIN MomentumThresholds THEN MomentumThresholds[token.category]
    ELSE IF "default" \in DOMAIN MomentumThresholds THEN MomentumThresholds["default"]
    ELSE Rat(5, 100)

\* thresholds.get(self.category, thresholds.get('default', 2.0))
GetZScoreThreshold(token) ==
    IF token.category \in DOMAIN ZScoreThresholds THEN ZScoreThresholds[token.category]
    ELSE IF "default" \in DOMAIN ZScoreThresholds THEN ZScoreThresholds["default"]
    ELSE R(2)

\* multipliers.get(self.volatility_expected, 1.0)
GetVolatilityMultiplier(token) ==
    IF token.volatility_expected \in DOMAIN VolatilityMultipliers
    THEN VolatilityMultipliers[token.volatility_expected]
    ELSE One

\* symbol_key = f"{token.symbol}_{token.chain}"
SymbolKey(token) == <<token.symbol, token.chain>>

HistoryKeys == { SymbolKey(Catalog[i]) : i \in 1..Len(Catalog) }

-----------------------------------------------------------------------------
(* Signals                                                                 *)

Signal(action, symbol, strength, reason, timestamp) ==
    [action |-> action, symbol |-> symbol, strength |-> strength, reason |-> reason,
     timestamp |-> timestamp]

\* the None an _analyze_* call returns
NoSignal == Signal("None", "None", Zero, "None", 0)

Sample(price, timestamp) == [price |-> price, timestamp |-> timestamp]

\* a check for None alone, which lets a price of 0 through
NoValidPriceNoneOnly(answer) == answer.kind = "none"

\* current_price is None or current_price <= 0
NoValidPrice(answer) == answer.kind = "none" \/ answer.value <= 0

\* the append without the pruning that follows it
AppendWithoutPruning(window, price, t, lookback) == Append(window, Sample(price, t))

\* append the sample, then keep the samples with timestamp > cutoff_time
AppendAndPrune(window, price, t, lookback) ==
    SelectSeq(Append(window, Sample(price, t)), LAMBDA p : p.timestamp > t - lookback)

-----------------------------------------------------------------------------
(* MomentumStrategy._analyze_momentum                                      *)

\* momentum_threshold * volatility_multiplier
AdjustedThreshold(token) == RMul(GetMomentumThreshold(token), GetVolatilityMultiplier(token))

\* the return over the last step only: (prices[-1] - prices[-2]) / prices[-2]
RecentReturnLastStep(window) ==
    RDiv(R(window[Len(window)].price - window[Len(window) - 1].price),
         R(window[Len(window) - 1].price))

\* (prices[-1] - prices[0]) / prices[0]
RecentReturn(window) ==
    RDiv(R(window[Len(window)].price - window[1].price), R(window[1].price))

\* len(self.price_history[symbol_key]) < 2
TooFewForMomentum(window) == Len(window) < 2

\* abs(recent_return) / adjusted_threshold, without the cap
MomentumStrengthUncapped(recent_return, adjusted_threshold) ==
    RDiv(RAbs(recent_return), adjusted_threshold)

\* min(abs(recent_return) / adjusted_threshold, 1.0)
MomentumStrength(recent_return, adjusted_threshold) ==
    LET q == RDiv(RAbs(recent_return), adjusted_threshold)
    IN  IF q = DivByZero THEN DivByZero ELSE RMin(q, One)

\* the branch _analyze_momentum takes on a window of two samples or more
MomentumDecision(token, window, t) ==
    LET recent_return == RecentReturn(window)
        adjusted_threshold == AdjustedThreshold(token)
        strength == MomentumStrength(recent_return, adjusted_threshold)
    IN  IF RLt(adjusted_threshold, recent_return)
        THEN IF strength = DivByZero THEN NoSignal
             ELSE Signal("buy", token.symbol, strength, "Positive momentum", t)
        ELSE IF RLt(recent_return, RNeg(adjusted_threshold))
        THEN IF strength = DivByZero THEN NoSignal
             ELSE Signal("sell", token.symbol, strength, "Negative momentum", t)
        ELSE Signal("hold", token.symbol, Zero, "No significant momentum", t)

\* the window the call leaves under symbol_key, and the Optional[Signal] it returns
AnalyzeMomentum(window, token, answer, t) ==
    IF answer.kind = "raise" THEN [window |-> window, signal |-> NoSignal]
    ELSE IF NoValidPrice(answer) THEN [window |-> window, signal |-> NoSignal]
    ELSE LET kept == AppendAndPrune(window, answer.value, t, MomentumLookback)
         IN  [window |-> kept,
              signal |-> IF TooFewForMomentum(kept) THEN NoSignal
                         ELSE MomentumDecision(token, kept, t)]

-----------------------------------------------------------------------------
(* MeanReversionStrategy._analyze_mean_reversion                           *)

RECURSIVE SumPrices(_, _)
SumPrices(window, i) ==
    IF i > Len(window) THEN 0 ELSE window[i].price + SumPrices(window, i + 1)

RECURSIVE SumSquares(_, _)
SumSquares(window, i) ==
    IF i > Len(window) THEN 0
    ELSE window[i].price * window[i].price + SumSquares(window, i + 1)

\* np.mean(prices)
MeanPrice(window) == Rat(SumPrices(window, 1), Len(window))

\* np.std(prices) squared: the population variance
Variance(window) ==
    LET n == Len(window)
        s == SumPrices(window, 1)
    IN  Rat(n * SumSquares(window, 1) - s * s, n * n)

\* len(self.price_history[symbol_key]) < 10
TooFewForReversion(window) == Len(window) < MinReversionSamples

\* std_price == 0
StdIsZero(window) == Variance(window).n = 0

\* z_score = (current_price - mean_price) / std_price, held as its sign and its square
ZScore(window, current_price) ==
    LET diff == RSub(R(current_price), MeanPrice(window))
    IN  [sign |-> IF diff.n > 0 THEN 1 ELSE IF diff.n < 0 THEN -1 ELSE 0,
         square |-> RDiv(RMul(diff, diff), Variance(window))]

\* z > x, for a z given by sign and square
ZGreater(z, x) ==
    IF x.n >= 0 THEN z.sign > 0 /\ RLt(RMul(x, x), z.square)
    ELSE z.sign >= 0 \/ RLt(z.square, RMul(x, x))

ZNegated(z) == [sign |-> -z.sign, square |-> z.square]

\* the largest k/1000 whose square is at most q, for 0 <= q < 1
SqrtBelowOne(q) ==
    Rat(CHOOSE k \in 0..1000 :
            /\ k * k * q.d <= q.n * 1000000
            /\ (k + 1) * (k + 1) * q.d > q.n * 1000000,
        1000)

\* min(abs(z_score) / z_score_threshold, 1.0) for a threshold >= 0; numpy divides
\* by 0.0 to inf
ReversionStrength(z, z_score_threshold) ==
    IF z_score_threshold.n = 0 THEN One
    ELSE LET q == RDiv(z.square, RMul(z_score_threshold, z_score_threshold))
         IN  IF RLe(One, q) THEN One ELSE SqrtBelowOne(q)

\* the decision with Momentum's directions: buy above the band, sell below it
ReversionDecisionTrend(token, window, current_price, t) ==
    LET z_score_threshold == GetZScoreThreshold(token)
        z_score == ZScore(window, current_price)
    IN  IF ZGreater(z_score, z_score_threshold)
        THEN Signal("buy", token.symbol, ReversionStrength(z_score, z_score_threshold),
                    "Price too high", t)
        ELSE IF ZGreater(ZNegated(z_score), z_score_threshold)
        THEN Signal("sell", token.symbol, ReversionStrength(z_score, z_score_threshold),
                    "Price too low", t)
        ELSE Signal("hold", token.symbol, Zero, "Price normal", t)

\* the branch _analyze_mean_reversion takes on a window with a nonzero deviation
ReversionDecision(token, window, current_price, t) ==
    LET z_score_threshold == GetZScoreThreshold(token)
        z_score == ZScore(window, current_price)
    IN  IF ZGreater(z_score, z_score_threshold)
        THEN Signal("sell", token.symbol, ReversionStrength(z_score, z_score_threshold),
                    "Price too high", t)
        ELSE IF ZGreater(ZNegated(z_score), z_score_threshold)
        THEN Signal("buy", token.symbol, ReversionStrength(z_score, z_score_threshold),
                    "Price too low", t)
        ELSE Signal("hold", token.symbol, Zero, "Price normal", t)

\* the window the call leaves under symbol_key, and the Optional[Signal] it returns
AnalyzeMeanReversion(window, token, answer, t) ==
    IF answer.kind = "raise" THEN [window |-> window, signal |-> NoSignal]
    ELSE IF NoValidPrice(answer) THEN [window |-> window, signal |-> NoSignal]
    ELSE LET kept == AppendAndPrune(window, answer.value, t, ReversionLookback)
         IN  [window |-> kept,
              signal |-> IF TooFewForReversion(kept) THEN NoSignal
                         ELSE IF StdIsZero(kept) THEN NoSignal
                         ELSE ReversionDecision(token, kept, answer.value, t)]

-----------------------------------------------------------------------------
(* MultiStrategyManager                                                    *)

\* sum(s.strength for s in signals if s.action == action)
RECURSIVE StrengthOf(_, _, _)
StrengthOf(signals, action, i) ==
    IF i > Len(signals) THEN Zero
    ELSE RAdd(IF signals[i].action = action THEN signals[i].strength ELSE Zero,
              StrengthOf(signals, action, i + 1))

\* a combiner that lets the number of buy and of sell signals decide
CombineSignalsByCount(signals, t) ==
    LET buys == Len(SelectSeq(signals, LAMBDA sg : sg.action = "buy"))
        sells == Len(SelectSeq(signals, LAMBDA sg : sg.action = "sell"))
        net == RAbs(RSub(StrengthOf(signals, "buy", 1), StrengthOf(signals, "sell", 1)))
    IN  IF buys > sells THEN Signal("buy", signals[1].symbol, net, "Combined buy signals", t)
        ELSE IF sells > buys
        THEN Signal("sell", signals[1].symbol, net, "Combined sell signals", t)
        ELSE Signal("hold", signals[1].symbol, Zero, "Conflicting signals", t)

\* _combine_signals
CombineSignals(signals, t) ==
    LET buy_strength == StrengthOf(signals, "buy", 1)
        sell_strength == StrengthOf(signals, "sell", 1)
    IN  IF RLt(sell_strength, buy_strength)
        THEN Signal("buy", signals[1].symbol, RSub(buy_strength, sell_strength),
                    "Combined buy signals", t)
        ELSE IF RLt(buy_strength, sell_strength)
        THEN Signal("sell", signals[1].symbol, RSub(sell_strength, buy_strength),
                    "Combined sell signals", t)
        ELSE Signal("hold", signals[1].symbol, Zero, "Conflicting signals", t)

\* signal_groups[symbol]: the signals of one symbol, in list order
Group(signals, symbol) == SelectSeq(signals, LAMBDA sg : sg.symbol = symbol)

\* whether signals[i] opens its symbol's group
FirstOfSymbol(signals, i) == \A j \in 1..(i - 1) : signals[j].symbol # signals[i].symbol

\* one group's entry in combined_signals
CombinedGroup(symbol_signals, t) ==
    IF Len(symbol_signals) = 1 THEN symbol_signals[1] ELSE CombineSignals(symbol_signals, t)

\* _combine_signals_by_symbol: one signal per symbol, in order of first appearance
RECURSIVE CombineFrom(_, _, _)
CombineFrom(signals, i, t) ==
    IF i > Len(signals) THEN <<>>
    ELSE (IF FirstOfSymbol(signals, i)
          THEN <<CombinedGroup(Group(signals, signals[i].symbol), t)>> ELSE <<>>)
         \o CombineFrom(signals, i + 1, t)

CombineSignalsBySymbol(signals, t) == CombineFrom(signals, 1, t)

\* what generate_signals keeps of one _analyze_* result: 'signal and signal.action != "hold"'
Actionable(signal) == signal # NoSignal /\ signal.action # "hold"

-----------------------------------------------------------------------------
(* The strategy operations as actions                                      *)

\* what get_token_price answers a strategy: an exception that is no
\* RequestException, None, a price that is not positive, or a positive price
PriceAnswers ==
    { PriceRaises, PriceAbsent, PriceOf(0), PriceOf(100), PriceOf(106), PriceOf(107) }

\* hours between two calls
Steps == {1, 2}

\* the last hour a momentum call is made at
MaxTime == 4

\* one _analyze_momentum call
MomentumAnalyze ==
    \E i \in 1..Len(Tradeable), answer \in PriceAnswers, dt \in Steps :
        LET token == Tradeable[i]
            key == SymbolKey(token)
            r == AnalyzeMomentum(momHistory[key], token, answer, now + dt)
        IN  /\ now + dt <= MaxTime
            /\ now' = now + dt
            /\ momHistory' = [momHistory EXCEPT ![key] = r.window]
            /\ sigOp' = "_analyze_momentum"
            /\ sigToken' = token
            /\ sigAnswer' = answer
            /\ sigResult' = r.signal
            /\ UNCHANGED <<revHistory, sigAnswers, sigIn, sigOut, rebVars, agentVars>>

ReversionAnswers == { PriceAbsent, PriceOf(0), PriceOf(100), PriceOf(130) }

\* the last hour a mean-reversion call is made at
ReversionMaxTime == 11

\* one _analyze_mean_reversion call, an hour after the one before
ReversionAnalyze ==
    \E answer \in ReversionAnswers :
        LET key == SymbolKey(sigToken)
            r == AnalyzeMeanReversion(revHistory[key], sigToken, answer, now + 1)
        IN  /\ now + 1 <= ReversionMaxTime
            /\ now' = now + 1
            /\ revHistory' = [revHistory EXCEPT ![key] = r.window]
            /\ sigOp' = "_analyze_mean_reversion"
            /\ sigAnswer' = answer
            /\ sigResult' = r.signal
            /\ UNCHANGED <<momHistory, sigToken, sigAnswers, sigIn, sigOut, rebVars, agentVars>>

\* _combine_signals_by_symbol on the list at hand
CombineCall ==
    /\ sigOp = "none"
    /\ sigOut' = CombineSignalsBySymbol(sigIn, now)
    /\ sigOp' = "_combine_signals_by_symbol"
    /\ UNCHANGED <<now, momHistory, revHistory, sigToken, sigAnswer, sigAnswers, sigResult, sigIn,
                   rebVars, agentVars>>

\* the lists _combine_signals_by_symbol is tried on
InputSymbols == {"WETH", "BONK"}
InputStrengths == { Rat(2, 10), Rat(3, 10), Rat(5, 10), One }
InputSignals ==
    { Signal(a, sym, st, "input", 0) : a \in {"buy", "sell"}, sym \in InputSymbols,
                                       st \in InputStrengths }
    \cup { Signal("hold", sym, Zero, "input", 0) : sym \in InputSymbols }

MaxSignals == 3

SignalLists == UNION { [1..n -> InputSignals] : n \in 0..MaxSignals }

\* an analysis without a handler of its own: the exception of the lookup leaves it
EscapesUncaught(answer) == answer.kind = "raise"

\* whether an exception leaves _analyze_momentum or _analyze_mean_reversion:
\* their 'except Exception' logs it and returns None
Escapes(answer) == FALSE

\* the first token whose analysis lets an exception out: the handler of
\* generate_signals ends the loop there and returns the signals so far
FirstEscape(answers) ==
    LET escaping == { i \in 1..Len(Tradeable) : Escapes(answers[i]) }
    IN  IF escaping = {} THEN Len(Tradeable) + 1
        ELSE CHOOSE i \in escaping : \A j \in escaping : i <= j

\* generate_signals of the Momentum generator: the actionable results, in token order
RECURSIVE MomentumSignals(_, _, _, _)
MomentumSignals(history, answers, i, t) ==
    IF i > Len(Tradeable) \/ i >= FirstEscape(answers) THEN <<>>
    ELSE LET r == AnalyzeMomentum(history[SymbolKey(Tradeable[i])], Tradeable[i], answers[i], t)
         IN  (IF Actionable(r.signal) THEN <<r.signal>> ELSE <<>>)
             \o MomentumSignals(history, answers, i + 1, t)

\* generate_signals of the Mean-Reversion generator
RECURSIVE ReversionSignals(_, _, _, _)
ReversionSignals(history, answers, i, t) ==
    IF i > Len(Tradeable) \/ i >= FirstEscape(answers) THEN <<>>
    ELSE LET r == AnalyzeMeanReversion(history[SymbolKey(Tradeable[i])], Tradeable[i],
                                       answers[i], t)
         IN  (IF Actionable(r.signal) THEN <<r.signal>> ELSE <<>>)
             \o ReversionSignals(history, answers, i + 1, t)

\* price_history of the Momentum generator after one generate_signals
MomentumHistoryAfter(history, answers, t) ==
    [k \in HistoryKeys |->
        IF \E i \in 1..Len(Tradeable) : SymbolKey(Tradeable[i]) = k
        THEN LET i == CHOOSE j \in 1..Len(Tradeable) : SymbolKey(Tradeable[j]) = k
             IN  IF i >= FirstEscape(answers) THEN history[k]
                 ELSE AnalyzeMomentum(history[k], Tradeable[i], answers[i], t).window
        ELSE history[k]]

\* price_history of the Mean-Reversion generator after one generate_signals
ReversionHistoryAfter(history, answers, t) ==
    [k \in HistoryKeys |->
        IF \E i \in 1..Len(Tradeable) : SymbolKey(Tradeable[i]) = k
        THEN LET i == CHOOSE j \in 1..Len(Tradeable) : SymbolKey(Tradeable[j]) = k
             IN  IF i >= FirstEscape(answers) THEN history[k]
                 ELSE AnalyzeMeanReversion(history[k], Tradeable[i], answers[i], t).window
        ELSE history[k]]

CycleAnswers == { PriceRaises, PriceAbsent, PriceOf(100), PriceOf(107) }

\* the last hour generate_combined_signals is called at
CycleMaxTime == 2

\* MultiStrategyManager.generate_combined_signals, an hour after the call
\* before; within a cycle both generators are answered the same price for a token
GenerateCombinedSignalsWith(cycle_answers, last_hour) ==
    \E answers \in cycle_answers :
        LET t == now + 1
            all_signals == MomentumSignals(momHistory, answers, 1, t)
                           \o ReversionSignals(revHistory, answers, 1, t)
        IN  /\ t <= last_hour
            /\ now' = t
            /\ momHistory' = MomentumHistoryAfter(momHistory, answers, t)
            /\ revHistory' = ReversionHistoryAfter(revHistory, answers, t)
            /\ sigIn' = all_signals
            /\ sigOut' = CombineSignalsBySymbol(all_signals, t)
            /\ sigOp' = "generate_combined_signals"
            /\ sigAnswers' = answers
            /\ UNCHANGED <<sigToken, sigAnswer, sigResult, rebVars, agentVars>>

GenerateCombinedSignals ==
    GenerateCombinedSignalsWith([1..Len(Tradeable) -> CycleAnswers], CycleMaxTime)

\* the hourly cycles of a long run: every asset quoted 100 until the
\* Mean-Reversion window is one sample short of its statistics
SteadyAnswers == { [i \in 1..Len(Tradeable) |-> PriceOf(100)] }

\* the prices answered once the windows are full
LateAnswers == { PriceAbsent, PriceOf(100), PriceOf(107) }

WarmUpCycle ==
    /\ now + 1 < MinReversionSamples
    /\ GenerateCombinedSignalsWith(SteadyAnswers, ReversionMaxTime)

FullWindowCycle ==
    /\ now + 1 >= MinReversionSamples
    /\ GenerateCombinedSignalsWith([1..Len(Tradeable) -> LateAnswers], ReversionMaxTime)

-----------------------------------------------------------------------------
(* TradingAgent.execute_trading_signals                                    *)

\* strategy_config.position_sizing (no 'default' entry)
PositionSizing == [major |-> Rat(15, 100)]

\* ratios.get(self.category, ratios.get('default', 0.10))
GetPositionSizeRatio(token) ==
    IF token.category \in DOMAIN PositionSizing THEN PositionSizing[token.category]
    ELSE IF "default" \in DOMAIN PositionSizing THEN PositionSizing["default"]
    ELSE Rat(10, 100)

\* the None get_token_by_symbol returns
NoToken == TokenInfo("None", "None", "None", "None", FALSE)

\* TokenConfigManager.get_token_by_symbol(symbol): the first entry of that symbol
GetTokenBySymbol(symbol) ==
    LET found == { i \in 1..Len(Catalog) : Catalog[i].symbol = symbol }
    IN  IF found = {} THEN NoToken
        ELSE Catalog[CHOOSE i \in found : \A j \in found : i <= j]

\* Config.MAX_POSITION_SIZE
MaxPositionSize == Rat(3, 10)

\* Config.MIN_TRADE_AMOUNT
MinTradeAmount == 10

\* MomentumStrategy.calculate_position_size
CalculatePositionSize(signal, available_capital) ==
    LET token == GetTokenBySymbol(signal.symbol)
        base_ratio == IF token # NoToken THEN GetPositionSizeRatio(token) ELSE Rat(1, 10)
        base_position_size == RMul(R(available_capital), base_ratio)
        position_size == RMul(base_position_size, signal.strength)
        max_position == RMul(R(available_capital), MaxPositionSize)
    IN  RMin(position_size, max_position)

\* a Mean-Reversion sizing that uses the whole category ratio
ReversionPositionSizeFullRatio(signal, available_capital) ==
    LET token == GetTokenBySymbol(signal.symbol)
        base_ratio == IF token # NoToken THEN GetPositionSizeRatio(token) ELSE Rat(5, 100)
    IN  RMin(RMul(RMul(R(available_capital), base_ratio), signal.strength),
             RMul(R(available_capital), MaxPositionSize))

\* MeanReversionStrategy.calculate_position_size
ReversionPositionSize(signal, available_capital) ==
    LET token == GetTokenBySymbol(signal.symbol)
        base_ratio == IF token # NoToken
                      THEN RMul(GetPositionSizeRatio(token), Rat(1, 2))
                      ELSE Rat(5, 100)
        base_position_size == RMul(R(available_capital), base_ratio)
        position_size == RMul(base_position_size, signal.strength)
        max_position == RMul(R(available_capital), MaxPositionSize)
    IN  RMin(position_size, max_position)

\* the signals and capitals the two sizings are applied to: known and unknown
\* symbols, strengths from 0 to beyond the cap
SizedSymbols == { "WETH", "SOL", "USDC", "LINK", "BONK" }
SizedStrengths == { Zero, Rat(1, 10), Rat(1, 2), One, R(2), R(3) }
SizedCapitals == { 0, 100, 1000, 2500 }

NotSized ==
    [kind |-> "none", symbol |-> "None", action |-> "None", strength |-> Zero,
     available_capital |-> 0, momentum |-> Zero, reversion |-> Zero]

\* calculate_position_size of both strategies for one signal
CalculatePositionSizes ==
    \E symbol \in SizedSymbols, strength \in SizedStrengths,
       available_capital \in SizedCapitals, action \in {"buy", "sell"} :
        LET signal == Signal(action, symbol, strength, "sized", now)
        IN  /\ sizing' = [kind |-> "sized", symbol |-> symbol, action |-> action,
                          strength |-> strength,
                          available_capital |-> available_capital,
                          momentum |-> CalculatePositionSize(signal, available_capital),
                          reversion |-> ReversionPositionSize(signal, available_capital)]
            /\ UNCHANGED <<rebVars, sigVars, sigTrades, dataVars, agent, monitorVars>>

\* token_addresses.get(symbol): the three addresses the agent knows
TokenAddresses(symbol) ==
    IF symbol \in {"WETH", "USDC"} THEN Address("ethereum", symbol)
    ELSE IF symbol = "SOL" THEN Address("solana", "SOL")
    ELSE NoAddress

\* TradingAgent._get_trade_tokens
GetTradeTokens(signal) ==
    IF signal.action = "buy" THEN <<TokenAddresses("USDC"), TokenAddresses(signal.symbol)>>
    ELSE IF signal.action = "sell"
    THEN <<TokenAddresses(signal.symbol), TokenAddresses("USDC")>>
    ELSE <<NoAddress, NoAddress>>

\* signal.action in ['buy', 'sell'] and signal.strength > 0.1
StrongSignal(signal) == signal.action \in {"buy", "sell"} /\ RLt(Rat(1, 10), signal.strength)

\* a loop that submits a position of any size
PositionOfAnySize(position_size) == TRUE

\* position_size >= Config.MIN_TRADE_AMOUNT
PositionLargeEnough(position_size) == RLe(R(MinTradeAmount), position_size)

\* one execute_trade call of the loop and how it ended
SignalTrade(signal, from_token, to_token, amount, outcome) ==
    [symbol |-> signal.symbol, action |-> signal.action, from_token |-> from_token,
     to_token |-> to_token, amount |-> amount, outcome |-> outcome]

\* the loop over the signals: the execute_trade calls it makes, in order
RECURSIVE SignalTrades(_, _, _, _)
SignalTrades(signals, available_capital, outcomes, i) ==
    IF i > Len(signals) THEN <<>>
    ELSE LET signal == signals[i]
             position_size == CalculatePositionSize(signal, available_capital)
             tokens == GetTradeTokens(signal)
             call == IF /\ StrongSignal(signal)
                        /\ PositionLargeEnough(position_size)
                        /\ ~AddressMissing(tokens[1], tokens[2])
                     THEN <<SignalTrade(signal, tokens[1], tokens[2], position_size,
                                        outcomes[i])>>
                     ELSE <<>>
         IN  call \o SignalTrades(signals, available_capital, outcomes, i + 1)

\* what get_portfolio answers the agent: an exception, a body with a
\* 'total_value', or a body without one (read as 0)
CapitalAnswers ==
    { [kind |-> "raise", total_value |-> 0],
      [kind |-> "ok", total_value |-> 1000],
      [kind |-> "ok", total_value |-> 0] }

\* the symbols a cycle can signal, and whether execute_trade raises for each signal
SignalSymbols == { Tradeable[i].symbol : i \in 1..Len(Tradeable) }
TradeOutcomes == [1..Cardinality(SignalSymbols) -> {"ok", "raise"}]

\* TradingAgent.execute_trading_signals, an hour after the call before; within a
\* cycle both generators are answered the same price for a token
ExecuteTradingSignals ==
    \E answers \in [1..Len(Tradeable) -> CycleAnswers], portfolio \in CapitalAnswers,
       outcomes \in TradeOutcomes :
        LET t == now + 1
            all_signals == MomentumSignals(momHistory, answers, 1, t)
                           \o ReversionSignals(revHistory, answers, 1, t)
            signals == CombineSignalsBySymbol(all_signals, t)
        IN  /\ t <= CycleMaxTime
            /\ now' = t
            /\ momHistory' = MomentumHistoryAfter(momHistory, answers, t)
            /\ revHistory' = ReversionHistoryAfter(revHistory, answers, t)
            /\ sigIn' = all_signals
            /\ sigOut' = signals
            /\ sigOp' = "execute_trading_signals"
            /\ sigAnswers' = answers
            /\ sigTrades' = IF signals = <<>> \/ portfolio.kind = "raise" THEN <<>>
                            ELSE SignalTrades(signals, portfolio.total_value, outcomes, 1)
            /\ UNCHANGED <<sigToken, sigAnswer, sigResult, rebVars, dataVars, agent, monitorVars, sizing>>

-----------------------------------------------------------------------------
(* MarketDataProvider.get_token_price                                      *)

\* self.cache_duration, in seconds
CacheDuration == 60

\* the (address, chain) pairs of get_current_price_by_symbol's token_map, an
\* address being named by its symbol
MarketKeys == { <<"WETH", "ethereum">>, <<"USDC", "ethereum">>, <<"SOL", "solana">> }

\* cache_key not in self.price_cache
NoEntry == [kind |-> "none", price |-> PriceAbsent, timestamp |-> 0]

\* {'price': price, 'timestamp': current_time}
CacheEntry(price, current_time) ==
    [kind |-> "entry", price |-> price, timestamp |-> current_time]

\* the hit test with an entry of age 60 s still counted as young
CacheHitInclusive(entry, current_time) ==
    /\ entry.kind = "entry"
    /\ current_time - entry.timestamp <= CacheDuration

\* cache_key in self.price_cache and
\* current_time - cached_data['timestamp'] < self.cache_duration
CacheHit(entry, current_time) ==
    /\ entry.kind = "entry"
    /\ current_time - entry.timestamp < CacheDuration

\* get_token_price(token_address, chain) at current_time, the upstream
\* trading_client.get_token_price answering 'answer' if it is asked: the value
\* returned, the number of upstream calls made and the cache afterwards
CachedPrice(cache, key, current_time, answer) ==
    IF CacheHit(cache[key], current_time)
    THEN [result |-> cache[key].price, upstream |-> 0, cache |-> cache]
    ELSE IF answer.kind = "raise"
    THEN [result |-> PriceAbsent, upstream |-> 1, cache |-> cache]
    ELSE [result |-> answer, upstream |-> 1,
          cache |-> [cache EXCEPT ![key] = CacheEntry(answer, current_time)]]

\* what trading_client.get_token_price does when asked: raises (an exception
\* that is no RequestException), returns None, or returns a positive price
UpstreamAnswers == { PriceRaises, PriceAbsent, PriceOf(100), PriceOf(105) }

\* seconds that pass between two reads of time.time()
CacheSteps == { 0, 30, 60 }

CacheMaxTime == 120

NoCall == [kind |-> "none"]

\* MarketDataProvider.get_token_price
GetTokenPrice ==
    \E key \in MarketKeys, step \in CacheSteps, answer \in UpstreamAnswers :
        LET current_time == clock + step
            hit == CacheHit(priceCache[key], current_time)
            out == CachedPrice(priceCache, key, current_time, answer)
        IN  /\ current_time <= CacheMaxTime
            /\ hit => answer = PriceAbsent
            /\ clock' = current_time
            /\ priceCache' = out.cache
            /\ cacheCall' = [kind |-> "call", key |-> key, at |-> current_time,
                             before |-> priceCache[key],
                             upstream |-> out.upstream,
                             raised |-> ~hit /\ answer.kind = "raise",
                             result |-> out.result]
            /\ UNCHANGED <<rebVars, sigVars, sigTrades, agent, monitorVars, sizing>>

-----------------------------------------------------------------------------
(* TradingAgent.start and the client calls it makes                        *)

StatusCode(code) == [kind |-> "status", code |-> code]

\* requests.RequestException raised by session.get
RequestFails == [kind |-> "request_exception", code |-> 0]

\* any other Exception raised by session.get
TransportFails == [kind |-> "exception", code |-> 0]

\* what GET /health can do
HealthAnswers == { StatusCode(200), StatusCode(503), RequestFails, TransportFails }

\* RecallTradingClient.health_check: "True", "False", or "raise" when the
\* exception is none the method catches
HealthCheck(answer) ==
    IF answer.kind = "status" THEN (IF answer.code = 200 THEN "True" ELSE "False")
    ELSE IF answer.kind = "request_exception" THEN "False"
    ELSE "raise"

\* "/agent/portfolio", "/agent/balances", "/competition/status"
TestEndpoints == 3

\* what a GET of one test endpoint can do
EndpointAnswers == { StatusCode(200), StatusCode(401), StatusCode(404), StatusCode(500),
                     RequestFails, TransportFails }

\* RecallTradingClient.validate_api_key from its i-th endpoint on
RECURSIVE ValidateApiKey(_, _)
ValidateApiKey(answers, i) ==
    IF i > TestEndpoints THEN "False"
    ELSE IF answers[i].kind = "exception" THEN "raise"
    ELSE IF answers[i].kind = "request_exception" THEN ValidateApiKey(answers, i + 1)
    ELSE IF answers[i].code = 401 THEN "False"
    ELSE IF answers[i].code \in {200, 404} THEN "True"
    ELSE ValidateApiKey(answers, i + 1)

\* the jobs start() hands to schedule, with their periods in minutes
Jobs ==
    [ rebalance_portfolio |-> 60, execute_trading_signals |-> 30, monitor_prices |-> 15,
      log_portfolio_status |-> 360, generate_daily_report |-> 1440 ]

\* validate_api_key is not called when the health check stops start()
NotAsked == <<>>

NewAgent ==
    [ state |-> "new", running |-> FALSE, health_answer |-> StatusCode(0),
      health |-> "none", key_answers |-> NotAsked, key_valid |-> "none",
      scheduled |-> {}, ran |-> {}, minute |-> 0 ]

\* TradingAgent.start up to its main loop
StartUp(health_answer, key_answers) ==
    LET health == HealthCheck(health_answer)
        asked == [NewAgent EXCEPT !.health_answer = health_answer, !.health = health]
        key_valid == ValidateApiKey(key_answers, 1)
        validated == [asked EXCEPT !.key_answers = key_answers, !.key_valid = key_valid]
    IN  IF health = "raise" THEN [asked EXCEPT !.state = "raised"]
        ELSE IF health = "False" THEN [asked EXCEPT !.state = "returned_false"]
        ELSE IF key_valid = "raise" THEN [validated EXCEPT !.state = "raised"]
        ELSE [validated EXCEPT !.scheduled = DOMAIN Jobs, !.running = TRUE,
                               !.state = "main_loop"]

\* the minutes the main loop is followed for
MaxMinutes == 60

\* TradingAgent.start is called
Start ==
    \E health_answer \in HealthAnswers, key_answers \in [1..TestEndpoints -> EndpointAnswers] :
        /\ agent.state = "new"
        /\ agent' = StartUp(health_answer, key_answers)
        /\ UNCHANGED <<rebVars, sigVars, sigTrades, dataVars, monitorVars, sizing>>

\* schedule.run_pending() at this minute: the jobs whose period has elapsed
Pending(scheduled, minute) ==
    { job \in scheduled : minute > 0 /\ minute % Jobs[job] = 0 }

\* one turn of the main loop: schedule.run_pending(), time.sleep(60)
MainLoopTurn ==
    /\ agent.state = "main_loop"
    /\ agent.running
    /\ agent.minute < MaxMinutes
    /\ agent' = [agent EXCEPT !.ran = @ \cup Pending(agent.scheduled, agent.minute),
                              !.minute = @ + 1]
    /\ UNCHANGED <<rebVars, sigVars, sigTrades, dataVars, monitorVars, sizing>>

\* TradingAgent._signal_handler (SIGINT, SIGTERM), installed by start()
SignalHandler ==
    /\ agent.state = "main_loop"
    /\ agent.running
    /\ agent' = [agent EXCEPT !.running = FALSE]
    /\ UNCHANGED <<rebVars, sigVars, sigTrades, dataVars, monitorVars, sizing>>

\* the main loop finds self.running false: stop(), return True
LeaveMainLoop ==
    /\ agent.state = "main_loop"
    /\ ~agent.running
    /\ agent' = [agent EXCEPT !.state = "returned_true"]
    /\ UNCHANGED <<rebVars, sigVars, sigTrades, dataVars, monitorVars, sizing>>

-----------------------------------------------------------------------------
(* PriceMonitor.monitor_prices                                             *)

\* token_map of get_current_price_by_symbol
TokenMap == [WETH |-> <<"WETH", "ethereum">>, USDC |-> <<"USDC", "ethereum">>,
             SOL |-> <<"SOL", "solana">>]

\* MarketDataProvider.get_current_price_by_symbol at current_time; 'answers' is
\* what the upstream lookup does for each key if it is asked
CurrentPriceBySymbol(cache, symbol, current_time, answers) ==
    IF symbol \in DOMAIN TokenMap
    THEN CachedPrice(cache, TokenMap[symbol], current_time, answers[TokenMap[symbol]])
    ELSE [result |-> PriceAbsent, upstream |-> 0, cache |-> cache]

\* symbol not in self.last_prices
NotStored == [kind |-> "missing", value |-> 0]

\* self.price_change_threshold
PriceChangeThreshold == Rat(5, 100)

\* (current_price - last_price) / last_price: the exception it raises, if any
ChangeRaises(current_price, last_price) ==
    IF last_price.kind = "none" THEN "TypeError"
    ELSE IF last_price.value = 0 THEN "ZeroDivisionError"
    ELSE "none"

PriceChange(current_price, last_price) ==
    RDiv(R(current_price.value - last_price.value), R(last_price.value))

\* abs(change) >= self.price_change_threshold
IsAlert(change) == RLe(PriceChangeThreshold, RAbs(change))

Alert(symbol, current_price, last_price, change, timestamp) ==
    [symbol |-> symbol, type |-> "price_change", current_price |-> current_price,
     last_price |-> last_price, change |-> change, timestamp |-> timestamp]

\* an exception that is caught by no handler of monitor_prices
CaughtNothing(exception) == FALSE

\* except Exception around the body of the loop
Caught(exception) == exception \in {"TypeError", "ZeroDivisionError"}

\* the body of the loop for one symbol, from the state 'st' of the call
MonitorSymbol(st, symbol, current_time, answers) ==
    LET looked == CurrentPriceBySymbol(st.cache, symbol, current_time, answers)
        current_price == looked.result
        seen == Append(st.seen, [symbol |-> symbol, current_price |-> current_price,
                                 last_price |-> st.last[symbol]])
        after == [st EXCEPT !.cache = looked.cache, !.seen = seen]
        last_price == st.last[symbol]
        exception == IF last_price = NotStored THEN "none"
                     ELSE ChangeRaises(current_price, last_price)
    IN  IF current_price.kind = "none" THEN after
        ELSE IF exception # "none"
        THEN [after EXCEPT !.errors = Append(@, symbol),
                           !.raised = ~Caught(exception)]
        ELSE LET change == PriceChange(current_price, last_price)
                 alerts == IF last_price # NotStored /\ IsAlert(change)
                           THEN Append(st.alerts,
                                       Alert(symbol, current_price, last_price, change,
                                             current_time))
                           ELSE st.alerts
             IN  [after EXCEPT !.alerts = alerts, !.last[symbol] = current_price]

\* for symbol in symbols, from the i-th on; an exception that leaves the
\* loop ends the call
RECURSIVE MonitorFrom(_, _, _, _, _)
MonitorFrom(st, symbols, i, current_time, answers) ==
    IF i > Len(symbols) \/ st.raised THEN st
    ELSE MonitorFrom(MonitorSymbol(st, symbols[i], current_time, answers),
                     symbols, i + 1, current_time, answers)

\* self.symbols of the agent (token_config.get_token_symbols()), and the list
\* test_division_by_zero_fix passes
EnabledSymbols == SelectSeq([i \in 1..Len(Catalog) |-> Catalog[i].symbol],
                            LAMBDA s : \E i \in 1..Len(Catalog) :
                                          Catalog[i].symbol = s /\ Catalog[i].enabled)

MonitorLists == { EnabledSymbols, <<"TEST_TOKEN", "TEST_TOKEN2">> }

MonitoredSymbols == UNION { { l[i] : i \in 1..Len(l) } : l \in MonitorLists }

\* seconds between two monitor_prices calls: back to back, or as scheduled
MonitorSteps == { 0, 900 }

MonitorMaxTime == 900

NotMonitored ==
    [kind |-> "none", symbols |-> <<>>, at |-> 0, before |-> <<>>, seen |-> <<>>,
     alerts |-> <<>>, errors |-> <<>>]

\* PriceMonitor.monitor_prices(symbols); a key that is not asked upstream has
\* no answer to choose
MonitorPrices ==
    \E symbols \in MonitorLists, step \in MonitorSteps,
       answers \in [MarketKeys -> UpstreamAnswers] :
        LET current_time == clock + step
            st == MonitorFrom([cache |-> priceCache, last |-> lastPrices, seen |-> <<>>,
                               alerts |-> <<>>, errors |-> <<>>, raised |-> FALSE],
                              symbols, 1, current_time, answers)
            asked == { TokenMap[symbols[i]] :
                         i \in { j \in 1..Len(symbols) : symbols[j] \in DOMAIN TokenMap } }
        IN  /\ current_time <= MonitorMaxTime
            /\ \A key \in MarketKeys :
                  key \notin asked \/ CacheHit(priceCache[key], current_time)
                      => answers[key] = PriceAbsent
            /\ clock' = current_time
            /\ priceCache' = st.cache
            /\ lastPrices' = st.last
            /\ monitorOut' = [kind |-> IF st.raised THEN "raised" ELSE "returned",
                              symbols |-> symbols, at |-> current_time,
                              before |-> lastPrices, seen |-> st.seen,
                              alerts |-> st.alerts, errors |-> st.errors]
            /\ UNCHANGED <<rebVars, sigVars, sigTrades, cacheCall, agent, sizing>>

\* self.last_prices = {}
NoLastPrices == [s \in MonitoredSymbols |-> NotStored]

\* last_prices as __init__ leaves it, as test_division_by_zero_fix sets it, and
\* with a zero and a None under symbols that have a price
LastPricesDicts ==
    { NoLastPrices,
      [NoLastPrices EXCEPT !["TEST_TOKEN"] = PriceOf(0), !["TEST_TOKEN2"] = PriceAbsent],
      [NoLastPrices EXCEPT !["WETH"] = PriceOf(0), !["SOL"] = PriceAbsent] }

\* nothing of the agent has run
AgentIdle ==
    /\ sigTrades = <<>>
    /\ clock = 0
    /\ priceCache = [key \in MarketKeys |-> NoEntry]
    /\ cacheCall = NoCall
    /\ agent = NewAgent
    /\ lastPrices = NoLastPrices
    /\ monitorOut = NotMonitored
    /\ sizing = NotSized

-----------------------------------------------------------------------------
(* Specifications                                                          *)

RebInit ==
    /\ pc = "new"
    /\ cfgFile \in ConfigFiles
    /\ api \in ApiAnswers
    /\ config = NoConfig
    /\ op = "none"
    /\ status = <<>>
    /\ statusSource = "none"
    /\ statusTotal = 0
    /\ trades = <<>>
    /\ rebResult = "none"
    /\ exLog = <<>>
    /\ tradeIdx = 1
    /\ amountBound = FALSE

\* no PortfolioManager in the picture
RebIdle ==
    /\ pc = "new"
    /\ cfgFile = [kind |-> "missing", cfg |-> NoConfig]
    /\ api = [portfolio |-> PortfolioRaises, balances |-> BalancesRaise]
    /\ config = NoConfig
    /\ op = "none"
    /\ status = <<>>
    /\ statusSource = "none"
    /\ statusTotal = 0
    /\ trades = <<>>
    /\ rebResult = "none"
    /\ exLog = <<>>
    /\ tradeIdx = 1
    /\ amountBound = FALSE

\* freshly constructed strategies: empty price_history, nothing analysed yet
SigInit ==
    /\ now = 0
    /\ momHistory = [k \in HistoryKeys |-> <<>>]
    /\ revHistory = [k \in HistoryKeys |-> <<>>]
    /\ sigOp = "none"
    /\ sigToken = Tradeable[1]
    /\ sigAnswer = PriceAbsent
    /\ sigAnswers = <<>>
    /\ sigResult = NoSignal
    /\ sigIn = <<>>
    /\ sigOut = <<>>

\* the rebalancer: construction, then any sequence of its three entry points
Init == RebInit /\ SigInit /\ AgentIdle

Next ==
    \/ Construct
    \/ GetPortfolioStatusCall
    \/ CalculateRebalanceTradesCall
    \/ ExecuteRebalanceCall
    \/ ExecuteRebalanceTrade

Spec == Init /\ [][Next]_vars

\* the Momentum generator analysing its tokens at successive hours
StrategyInit ==
    /\ RebIdle
    /\ SigInit
    /\ AgentIdle

SpecMomentum == StrategyInit /\ [][MomentumAnalyze]_vars

\* the tokens the Mean-Reversion runs analyse: the first of each category (the
\* category alone decides the threshold)
ReversionTokens ==
    { Tradeable[i] : i \in { j \in 1..Len(Tradeable) :
                               \A k \in 1..(j - 1) : Tradeable[k].category # Tradeable[j].category } }

\* the Mean-Reversion generator analysing one token hour after hour
ReversionInit ==
    /\ RebIdle
    /\ now = 0
    /\ momHistory = [k \in HistoryKeys |-> <<>>]
    /\ revHistory = [k \in HistoryKeys |-> <<>>]
    /\ sigOp = "none"
    /\ sigToken \in ReversionTokens
    /\ sigAnswer = PriceAbsent
    /\ sigAnswers = <<>>
    /\ sigResult = NoSignal
    /\ sigIn = <<>>
    /\ sigOut = <<>>
    /\ AgentIdle

SpecReversion == ReversionInit /\ [][ReversionAnalyze]_vars

\* _combine_signals_by_symbol applied to a list of signals
CombineInit ==
    /\ RebIdle
    /\ now = 0
    /\ momHistory = [k \in HistoryKeys |-> <<>>]
    /\ revHistory = [k \in HistoryKeys |-> <<>>]
    /\ sigOp = "none"
    /\ sigToken = Tradeable[1]
    /\ sigAnswer = PriceAbsent
    /\ sigAnswers = <<>>
    /\ sigResult = NoSignal
    /\ sigIn \in SignalLists
    /\ sigOut = <<>>
    /\ AgentIdle

SpecCombine == CombineInit /\ [][CombineCall]_vars

\* both generators and the combiner, cycle after cycle
SpecSignals == StrategyInit /\ [][GenerateCombinedSignals]_vars

\* the hourly cycles of a run long enough for both generators to emit signals
LongRunNext == WarmUpCycle \/ FullWindowCycle

SpecLongRun == StrategyInit /\ [][LongRunNext]_vars

\* the three consumers of a price, each run on its own from the start: the
\* rebalancer, the Momentum generator, the Mean-Reversion generator
PriceUseInit ==
    /\ RebInit \/ RebIdle
    /\ now = 0
    /\ momHistory = [k \in HistoryKeys |-> <<>>]
    /\ revHistory = [k \in HistoryKeys |-> <<>>]
    /\ sigOp = "none"
    /\ sigToken \in ReversionTokens
    /\ sigAnswer = PriceAbsent
    /\ sigAnswers = <<>>
    /\ sigResult = NoSignal
    /\ sigIn = <<>>
    /\ sigOut = <<>>
    /\ AgentIdle

RebalancerRun ==
    /\ sigOp = "none"
    /\ Next

MomentumRun ==
    /\ RebIdle
    /\ sigOp \in {"none", "_analyze_momentum"}
    /\ MomentumAnalyze

ReversionRun ==
    /\ RebIdle
    /\ sigOp \in {"none", "_analyze_mean_reversion"}
    /\ ReversionAnalyze

PriceUseNext ==
    \/ RebalancerRun
    \/ MomentumRun
    \/ ReversionRun

SpecPriceUse == PriceUseInit /\ [][PriceUseNext]_vars

\* the agent's signal cycles
SpecSignalTrades == StrategyInit /\ [][ExecuteTradingSignals]_vars

\* the start of the agent and its main loop
StartNext == Start \/ MainLoopTurn \/ SignalHandler \/ LeaveMainLoop

SpecStart == StrategyInit /\ [][StartNext]_vars

\* the price monitor, from any of the last_prices contents
MonitorInit ==
    /\ RebIdle
    /\ SigInit
    /\ sigTrades = <<>>
    /\ clock = 0
    /\ priceCache = [key \in MarketKeys |-> NoEntry]
    /\ cacheCall = NoCall
    /\ agent = NewAgent
    /\ lastPrices \in LastPricesDicts
    /\ monitorOut = NotMonitored
    /\ sizing = NotSized

SpecMonitor == MonitorInit /\ [][MonitorPrices]_vars

\* the two position sizings alone
SpecSizing == StrategyInit /\ [][CalculatePositionSizes]_vars

\* the price cache alone
SpecCache == StrategyInit /\ [][GetTokenPrice]_vars

-----------------------------------------------------------------------------
(* Claims about the rebalancer                                             *)

Overs == OverAllocated(config, status, TotalPortfolioValue(status, 1), 1)
Unders == UnderAllocated(config, status, TotalPortfolioValue(status, 1), 1)

\* the USD amount of the first k trades that leave the symbol
RECURSIVE TradedOut(_, _)
TradedOut(symbol, k) ==
    IF k = 0 THEN Zero
    ELSE RAdd(IF trades[k].from_symbol = symbol THEN trades[k].usd_amount ELSE Zero,
              TradedOut(symbol, k - 1))

Calculated == op \in {"calculate_rebalance_trades", "execute_rebalance"}

\* C1: every trade returned by calculate_rebalance_trades has its from_symbol
\* and its to_symbol resolving to the same chain.
C1_TradesStayOnOneChain ==
    \A i \in 1..Len(trades) :
        GetTokenChain(config, trades[i].from_symbol) = GetTokenChain(config, trades[i].to_symbol)

\* C1 witness: a list was calculated that holds a trade, while an over-allocated
\* and an under-allocated asset on different chains were left unpaired.
C1_Witness ==
    /\ op = "calculate_rebalance_trades"
    /\ Len(trades) > 0
    /\ \E i \in 1..Len(Overs), j \in 1..Len(Unders) :
          GetTokenChain(config, Overs[i].symbol) # GetTokenChain(config, Unders[j].symbol)

\* C2: every trade returned by calculate_rebalance_trades has
\* usd_amount >= min_trade_amount.
C2_TradesReachMinimum ==
    \A i \in 1..Len(trades) :
        trades[i].usd_amount.n >= config.min_trade_amount * trades[i].usd_amount.d

\* C2 witness: after its trades an over-allocated asset keeps a remainder that is
\* positive but below the minimum, and an under-allocated asset of its chain got
\* no trade from it.
C2_Witness ==
    /\ op = "calculate_rebalance_trades"
    /\ \E i \in 1..Len(Overs), j \in 1..Len(Unders) :
          LET rest == RSub(Overs[i].amount, TradedOut(Overs[i].symbol, Len(trades)))
          IN  /\ rest.n > 0
              /\ rest.n < config.min_trade_amount * rest.d
              /\ GetTokenChain(config, Overs[i].symbol) = GetTokenChain(config, Unders[j].symbol)
              /\ \A k \in 1..Len(trades) :
                    ~(trades[k].from_symbol = Overs[i].symbol
                      /\ trades[k].to_symbol = Unders[j].symbol)

Submitted(e) == e.ev \in {"submitted", "submit_failed"}

\* C3: when get_portfolio or get_balances raises, no allocation figures are
\* computed from substitute data and execute_rebalance submits no execute_trade.
C3_ApiFailurePropagated ==
    (api.portfolio.kind = "raise" \/ (api.portfolio.totalValue <= 0 /\ api.balances.kind = "raise"))
        => /\ status = <<>>
           /\ \A k \in 1..Len(exLog) : ~Submitted(exLog[k])

\* C4: when the portfolio endpoint reports a total <= 0 and the total summed from
\* the balances is <= 0 too, the caller gets no status mapping.
C4_ZeroTotalIsUnavailable ==
    (statusSource = "balances" /\ statusTotal <= 0) => status = <<>>

\* C5: a status computed with total_value = 0 has current_allocation = 0 and
\* drift = -target_allocation for every configured asset, and no status holds
\* the outcome of a division by zero.
C5_ZeroTotalZeroAllocation ==
    \A i \in 1..Len(status) :
        /\ status[i].current_allocation # DivByZero
        /\ statusTotal = 0 =>
              /\ status[i].current_allocation = Zero
              /\ status[i].drift = Rat(-status[i].target_allocation, 100)

\* C5 witness: the portfolio endpoint answered with a positive totalValue, none
\* of its tokens counted, and a status was built on the total 0.
C5_Witness ==
    /\ statusSource = "portfolio"
    /\ statusTotal = 0
    /\ Len(status) > 0

\* C6: a PortfolioManager is constructed only from target allocations that sum
\* to 1.0 (100 percent).
C6_AcceptedTargetsSumToOne ==
    pc \in {"ready", "trading"} => SumTargets(config.targets, 1) = 100

-----------------------------------------------------------------------------
(* The signal engine                                                       *)

\* the strengths of one symbol's signals of one action, summed over a list
RECURSIVE SumStrength(_, _, _, _)
SumStrength(signals, symbol, action, i) ==
    IF i > Len(signals) THEN Zero
    ELSE RAdd(IF signals[i].symbol = symbol /\ signals[i].action = action
              THEN signals[i].strength ELSE Zero,
              SumStrength(signals, symbol, action, i + 1))

Combined == sigOp = "_combine_signals_by_symbol"

\* C7: for a symbol with two or more signals in the list, the combiner returns
\* one signal decided by net strength: with B the sum of the buy strengths and S
\* the sum of the sell strengths, buy with strength B-S if B > S, sell with
\* strength S-B if S > B, hold with strength 0 and reason "Conflicting signals"
\* if B = S. So {buy 0.3, sell 0.3} gives hold 0 and {buy 0.5, buy 0.2} buy 0.7.
C7_CombinerNetStrength ==
    Combined =>
        /\ \A sym \in InputSymbols :
              LET ins == { i \in 1..Len(sigIn) : sigIn[i].symbol = sym }
                  outs == { k \in 1..Len(sigOut) : sigOut[k].symbol = sym }
                  B == SumStrength(sigIn, sym, "buy", 1)
                  S == SumStrength(sigIn, sym, "sell", 1)
              IN  Cardinality(ins) >= 2 =>
                    /\ Cardinality(outs) = 1
                    /\ LET o == sigOut[CHOOSE k \in outs : TRUE]
                       IN  /\ RLt(S, B) => o.action = "buy" /\ o.strength = RSub(B, S)
                           /\ RLt(B, S) => o.action = "sell" /\ o.strength = RSub(S, B)
                           /\ B = S => /\ o.action = "hold"
                                       /\ o.strength = Zero
                                       /\ o.reason = "Conflicting signals"
        /\ (/\ Len(sigIn) = 2
            /\ sigIn[1].symbol = sigIn[2].symbol
            /\ sigIn[1].action = "buy" /\ sigIn[1].strength = Rat(5, 10)
            /\ sigIn[2].action = "buy" /\ sigIn[2].strength = Rat(2, 10))
           => /\ Len(sigOut) = 1
              /\ sigOut[1].action = "buy"
              /\ sigOut[1].strength = Rat(7, 10)

\* C7 witness: a buy of strength 0.3 and a sell of strength 0.3 for one symbol
\* were combined into a hold.
C7_Witness ==
    /\ Combined
    /\ Len(sigIn) = 2
    /\ sigIn[1].symbol = sigIn[2].symbol
    /\ sigIn[1].action = "buy" /\ sigIn[1].strength = Rat(3, 10)
    /\ sigIn[2].action = "sell" /\ sigIn[2].strength = Rat(3, 10)
    /\ Len(sigOut) = 1
    /\ sigOut[1].action = "hold"

WellFormed(signal) ==
    /\ signal.action \in {"buy", "sell", "hold"}
    /\ RLe(Zero, signal.strength)
    /\ RLe(signal.strength, One)

\* C8: every signal the generators hand to the combiner, and every signal
\* generate_combined_signals returns, has an action among buy, sell and hold
\* and a strength between 0 and 1.
C8_SignalsWellFormed ==
    sigOp = "generate_combined_signals" =>
        /\ \A i \in 1..Len(sigIn) : WellFormed(sigIn[i])
        /\ \A k \in 1..Len(sigOut) : WellFormed(sigOut[k])

\* the adjusted threshold of the momentum analysis of each tradeable token: the
\* 'major' token of high volatility has 0.04 x 1.5, the 'defi' token of medium
\* volatility the defaults 0.05 x 1.0
ExpectedMomentumThreshold(token) ==
    IF token.category = "major" THEN Rat(6, 100) ELSE Rat(5, 100)

\* C9: a momentum analysis with a valid price yields no signal on a window of
\* fewer than 2 samples; on a longer window, with r = (latest - earliest) /
\* earliest and t the adjusted threshold, it yields buy iff r > t, sell iff
\* r < -t, each with strength min(|r|/t, 1), and hold with strength 0
\* otherwise. So [100, 100] gives hold 0, and [100, 106] with t = 0.05 buy 1.0.
C9_MomentumRule ==
    (sigOp = "_analyze_momentum" /\ sigAnswer.kind = "price" /\ sigAnswer.value > 0) =>
        LET window == momHistory[SymbolKey(sigToken)]
            n == Len(window)
            earliest == window[1].price
            latest == window[n].price
            t == ExpectedMomentumThreshold(sigToken)
            up == (latest - earliest) * t.d > t.n * earliest
            down == (latest - earliest) * t.d < -(t.n * earliest)
            ratio == Rat(Abs(latest - earliest) * t.d, earliest * t.n)
        IN  /\ n >= 1
            /\ latest = sigAnswer.value
            /\ n < 2 => sigResult = NoSignal
            /\ n >= 2 =>
                  /\ sigResult # NoSignal
                  /\ sigResult.symbol = sigToken.symbol
                  /\ sigResult.action = "buy" <=> up
                  /\ sigResult.action = "sell" <=> down
                  /\ (up \/ down) => sigResult.strength = RMin(ratio, One)
                  /\ ~(up \/ down) => /\ sigResult.action = "hold"
                                      /\ sigResult.strength = Zero
            /\ (n = 2 /\ earliest = 100 /\ latest = 100) =>
                  sigResult.action = "hold" /\ sigResult.strength = Zero
            /\ (n = 2 /\ earliest = 100 /\ latest = 106 /\ t = Rat(5, 100)) =>
                  sigResult.action = "buy" /\ sigResult.strength = One

\* C9 witness: the window [100, 106] of the token with threshold 0.05 was
\* analysed and gave a buy.
C9_Witness ==
    /\ sigOp = "_analyze_momentum"
    /\ sigAnswer = PriceOf(106)
    /\ sigToken.category = "defi"
    /\ Len(momHistory[SymbolKey(sigToken)]) = 2
    /\ momHistory[SymbolKey(sigToken)][1].price = 100
    /\ sigResult.action = "buy"

\* the z-score threshold of each tradeable token: 2.5 for 'major', else the default 2.0
ExpectedZScoreThreshold(token) ==
    IF token.category = "major" THEN Rat(5, 2) ELSE R(2)

\* C10: a mean-reversion analysis yields no signal on a window of fewer than
\* 10 samples or of standard deviation 0; otherwise, with z = (current - mean)
\* / stddev and t the z-score threshold, it yields sell iff z > t, buy iff
\* z < -t, each with strength min(|z|/t, 1) (which is 1 beyond the threshold),
\* and hold with strength 0 otherwise.
C10_MeanReversionRule ==
    (sigOp = "_analyze_mean_reversion" /\ sigAnswer.kind = "price" /\ sigAnswer.value > 0) =>
        LET window == revHistory[SymbolKey(sigToken)]
            n == Len(window)
            current == sigAnswer.value
            flat == \A i \in 1..n : window[i].price = window[1].price
            \* n * (current - mean), and n * n * variance
            dev == n * current - SumPrices(window, 1)
            var == n * SumSquares(window, 1) - SumPrices(window, 1) * SumPrices(window, 1)
            t == ExpectedZScoreThreshold(sigToken)
            beyond == t.d * t.d * dev * dev > t.n * t.n * var
            high == dev > 0 /\ beyond
            low == dev < 0 /\ beyond
        IN  /\ n >= 1
            /\ (n < 10 \/ flat) => sigResult = NoSignal
            /\ ~(n < 10 \/ flat) =>
                  /\ sigResult # NoSignal
                  /\ sigResult.symbol = sigToken.symbol
                  /\ sigResult.action = "sell" <=> high
                  /\ sigResult.action = "buy" <=> low
                  /\ (high \/ low) => sigResult.strength = One
                  /\ ~(high \/ low) => /\ sigResult.action = "hold"
                                       /\ sigResult.strength = Zero

\* C10 witness: a window of ten samples whose last price lies more than the
\* threshold above the mean was analysed and gave a sell.
C10_Witness ==
    /\ sigOp = "_analyze_mean_reversion"
    /\ Len(revHistory[SymbolKey(sigToken)]) >= 10
    /\ sigResult.action = "sell"
    /\ sigResult.strength = One

-----------------------------------------------------------------------------
(* Absent and failing lookups                                              *)

\* None, or a price that is not positive
Unusable(answer) == answer.kind = "none" \/ (answer.kind = "price" /\ answer.value <= 0)

\* an execute_trade call of execute_rebalance
TradeCall(e) == e.ev \in {"submitted", "submit_failed"}

C11_NothingFromUnusablePrice ==
    /\ \A k \in HistoryKeys :
          /\ \A i \in 1..Len(momHistory[k]) : momHistory[k][i].price > 0
          /\ \A i \in 1..Len(revHistory[k]) : revHistory[k][i].price > 0
    /\ (sigOp \in {"_analyze_momentum", "_analyze_mean_reversion"} /\ Unusable(sigAnswer))
          => sigResult = NoSignal
    /\ \A k \in 1..Len(exLog) :
          /\ TradeCall(exLog[k]) =>
                /\ exLog[k].amount # DivByZero
                /\ RLt(Zero, exLog[k].amount)
                /\ \A j \in 1..Len(exLog) :
                      exLog[j].trade = exLog[k].trade => exLog[j].ev # "no_price"

C11_WindowKept ==
    /\ (sigOp' = "_analyze_momentum" /\ Unusable(sigAnswer')) => momHistory' = momHistory
    /\ (sigOp' = "_analyze_mean_reversion" /\ Unusable(sigAnswer')) => revHistory' = revHistory

\* C11: a price lookup that answers None or a value <= 0 is used by no
\* consumer: the Momentum and the Mean-Reversion analysis leave the token's
\* window as it was (so every stored sample has a price > 0) and return no
\* signal, and execute_rebalance makes no execute_trade call for that trade.
C11_UnusablePriceNeverUsed == []C11_NothingFromUnusablePrice /\ [][C11_WindowKept]_vars

\* C11 witness: a momentum analysis of a token with a stored sample was
\* answered a price of 0.
C11_Witness ==
    /\ sigOp = "_analyze_momentum"
    /\ sigAnswer = PriceOf(0)
    /\ Len(momHistory[SymbolKey(sigToken)]) >= 1
    /\ sigResult = NoSignal

\* the entries of the log that stand for the processing of trade i
Attempts(i) ==
    { k \in 1..Len(exLog) : exLog[k].trade = i /\ exLog[k].ev \notin {"sleep", "aborted"} }

\* C12: an exception while one trade is processed, at the price lookup or at
\* the submission, keeps no later trade of the list from being attempted:
\* when execute_rebalance has returned, every trade of the list was processed
\* exactly once, in list order, and the return value is True.
C12_EveryTradeAttempted ==
    (op = "execute_rebalance" /\ rebResult \in {"True", "False"}) =>
        /\ rebResult = "True"
        /\ \A i \in 1..Len(trades) : Cardinality(Attempts(i)) = 1
        /\ \A j, k \in 1..Len(exLog) : j < k => exLog[j].trade <= exLog[k].trade

\* C13: every execute_trade call the agent makes, from execute_rebalance and
\* from execute_trading_signals, has its source token and its destination
\* token on one chain.
C13_EveryTradeOnOneChain ==
    /\ \A k \in 1..Len(sigTrades) :
          sigTrades[k].from_token.chain = sigTrades[k].to_token.chain
    /\ \A k \in 1..Len(exLog) :
          TradeCall(exLog[k]) => exLog[k].from_token.chain = exLog[k].to_token.chain

-----------------------------------------------------------------------------
(* The price cache                                                         *)

\* the entry the last call found was younger than the TTL
C14_Fresh ==
    /\ cacheCall.before.kind = "entry"
    /\ cacheCall.at - cacheCall.before.timestamp < CacheDuration

\* C14 as amended: a call that finds an entry younger than 60 s returns the stored
\* value, makes no upstream call and leaves the entry; any other call makes
\* exactly one upstream call; when that call returns, its result (a price or
\* None) is returned and replaces the entry, stamped with the time of the
\* call; when it raises, None is returned and the entry stays as it was.
C14_CacheContract ==
    cacheCall.kind = "call" =>
        /\ C14_Fresh =>
              /\ cacheCall.upstream = 0
              /\ cacheCall.result = cacheCall.before.price
              /\ priceCache[cacheCall.key] = cacheCall.before
        /\ ~C14_Fresh =>
              /\ cacheCall.upstream = 1
              /\ ~cacheCall.raised =>
                    priceCache[cacheCall.key] = CacheEntry(cacheCall.result, cacheCall.at)
              /\ cacheCall.raised =>
                    /\ cacheCall.result = PriceAbsent
                    /\ priceCache[cacheCall.key] = cacheCall.before

\* a call found an entry exactly 60 s old, asked upstream and replaced it with a
\* different value, while another key holds an entry
C14_Witness ==
    /\ cacheCall.kind = "call"
    /\ cacheCall.before.kind = "entry"
    /\ cacheCall.at - cacheCall.before.timestamp = CacheDuration
    /\ cacheCall.upstream = 1
    /\ ~cacheCall.raised
    /\ priceCache[cacheCall.key].price # cacheCall.before.price
    /\ \E key \in MarketKeys : key # cacheCall.key /\ priceCache[key].kind = "entry"

\* C14: a call that finds an entry younger than the TTL returns the stored value
\* without an upstream call; a call that finds no entry or one of age >= TTL
\* makes exactly one upstream call, and that call's result replaces the entry.
C14_MissReplacesEntry ==
    cacheCall.kind = "call" =>
        /\ C14_Fresh => cacheCall.upstream = 0 /\ cacheCall.result = cacheCall.before.price
        /\ ~C14_Fresh =>
              /\ cacheCall.upstream = 1
              /\ priceCache[cacheCall.key] = CacheEntry(cacheCall.result, cacheCall.at)

-----------------------------------------------------------------------------
(* Start-up                                                                *)

\* C15: when the API-key validation returns false, start() halts: no job is
\* scheduled, the main loop is never entered and no job ever runs.
C15_InvalidKeyHalts ==
    agent.key_valid = "False" =>
        /\ agent.scheduled = {}
        /\ agent.state \notin {"main_loop", "returned_true"}
        /\ agent.ran = {}

\* C16: health_check returns True exactly when the request completes with status
\* 200 and returns False, without raising, whenever the request fails, whatever
\* the transport raises.
C16_HealthCheckNeverRaises ==
    agent.state # "new" =>
        /\ agent.health = "True" <=> agent.health_answer = StatusCode(200)
        /\ agent.health_answer # StatusCode(200) => agent.health = "False"

-----------------------------------------------------------------------------
(* The price monitor                                                       *)

\* C17: monitor_prices never raises, whatever last_prices holds (a stored 0 or
\* None included) and whatever the lookups answer: it goes through every symbol
\* and returns its list of alerts; a symbol whose current price is absent is
\* skipped with its last_prices entry unchanged, and a division that raises on
\* a stored 0 or None is caught inside the call, that entry staying as it was.
C17_MonitorNeverRaises ==
    monitorOut.kind # "none" =>
        /\ monitorOut.kind = "returned"
        /\ Len(monitorOut.seen) = Len(monitorOut.symbols)
        /\ \A k \in 1..Len(monitorOut.seen) :
              LET s == monitorOut.seen[k]
              IN  /\ s.current_price.kind = "none" =>
                        lastPrices[s.symbol] = monitorOut.before[s.symbol]
                  /\ s.last_price \in {PriceOf(0), PriceAbsent} =>
                        lastPrices[s.symbol] = monitorOut.before[s.symbol]
        /\ \A k \in 1..Len(monitorOut.alerts) :
              monitorOut.alerts[k].last_price.value > 0

\* one call in which a stored 0 met a current price, one symbol had no current
\* price, and another symbol raised an alert
C17_Witness ==
    /\ monitorOut.kind = "returned"
    /\ \E k \in 1..Len(monitorOut.seen) :
          /\ monitorOut.seen[k].last_price = PriceOf(0)
          /\ monitorOut.seen[k].current_price.kind = "price"
    /\ \E k \in 1..Len(monitorOut.seen) :
          /\ monitorOut.seen[k].current_price.kind = "none"
          /\ monitorOut.seen[k].last_price.kind = "none"
          /\ monitorOut.seen[k].symbol \in DOMAIN TokenMap
    /\ monitorOut.alerts # <<>>

-----------------------------------------------------------------------------
(* Pairing of over- and under-allocated assets                             *)

\* the sum of the trades of ts, from the i-th on, that buy the symbol
RECURSIVE SumInto(_, _, _)
SumInto(ts, symbol, i) ==
    IF i > Len(ts) THEN Zero
    ELSE RAdd(IF ts[i].to_symbol = symbol THEN ts[i].usd_amount ELSE Zero,
              SumInto(ts, symbol, i + 1))

\* the sum of the trades of ts, from the i-th on, that sell the symbol
RECURSIVE SumOutOf(_, _, _)
SumOutOf(ts, symbol, i) ==
    IF i > Len(ts) THEN Zero
    ELSE RAdd(IF ts[i].from_symbol = symbol THEN ts[i].usd_amount ELSE Zero,
              SumOutOf(ts, symbol, i + 1))

\* C18: the trades out of an over-allocated asset sum to at most its excess, and
\* the trades into an under-allocated asset sum to at most its deficit, also
\* when several over-allocated assets are paired with the same one.
C18_TradesWithinExcessAndDeficit ==
    op = "calculate_rebalance_trades" =>
        LET tpv == TotalPortfolioValue(status, 1)
        IN  \A i \in 1..Len(status) :
                LET value_diff == ValueDiff(status[i], tpv)
                    deficit == IF RLt(Zero, value_diff) THEN value_diff ELSE Zero
                    excess == IF RLt(value_diff, Zero) THEN RAbs(value_diff) ELSE Zero
                IN  /\ RLe(SumOutOf(trades, status[i].symbol, 1), excess)
                    /\ RLe(SumInto(trades, status[i].symbol, 1), deficit)

\* the symbols of a list of candidates
CandidateSymbols(cs) == { cs[i].symbol : i \in 1..Len(cs) }

\* C19: an asset is a rebalance candidate exactly when |drift| exceeds the
\* threshold (strictly) and its excess or deficit is not below
\* min_trade_amount: an amount equal to min_trade_amount is kept.
C19_CandidateAtMinimumKept ==
    op = "calculate_rebalance_trades" =>
        LET tpv == TotalPortfolioValue(status, 1)
        IN  CandidateSymbols(UnderAllocated(config, status, tpv, 1))
                \cup CandidateSymbols(OverAllocated(config, status, tpv, 1))
            = { status[i].symbol : i \in
                  { j \in 1..Len(status) :
                      /\ RLt(Pct(config.rebalance_threshold), RAbs(status[j].drift))
                      /\ RLe(R(config.min_trade_amount),
                             RAbs(ValueDiff(status[j], tpv))) } }

\* C20: a pair whose from asset or to asset resolves to no chain (in
\* target_allocations, but listed under no chain of trading_pairs) yields no
\* trade in the list calculate_rebalance_trades returns.
C20_UnresolvedPairDiscarded ==
    op = "calculate_rebalance_trades" =>
        \A k \in 1..Len(trades) :
            /\ GetTokenChain(config, trades[k].from_symbol) # NoChain
            /\ GetTokenChain(config, trades[k].to_symbol) # NoChain

-----------------------------------------------------------------------------
(* Order and pacing of the submitted trades                                *)

\* C21: execute_rebalance submits the trades one at a time in the order of the
\* calculated list, and between two consecutive execute_trade calls of one run
\* the pause (time.sleep(1)) takes place, whether the earlier call returned or
\* raised.
C21_PauseBetweenSubmissions ==
    \A k \in 1..Len(exLog) : \A l \in 1..Len(exLog) :
        k < l /\ TradeCall(exLog[k]) /\ TradeCall(exLog[l]) =>
            /\ exLog[k].trade < exLog[l].trade
            /\ \E s \in (k + 1)..(l - 1) : exLog[s].ev = "sleep"

-----------------------------------------------------------------------------
(* The price windows                                                       *)

\* the window is in time order
InTimeOrder(window) ==
    \A i \in 1..Len(window) : \A j \in 1..Len(window) :
        i < j => window[i].timestamp <= window[j].timestamp

\* the window as a generator reads it at time t after appending the price
FreshWindow(window, price, t, lookback) ==
    /\ Len(window) >= 1
    /\ window[Len(window)] = Sample(price, t)
    /\ \A i \in 1..Len(window) : window[i].timestamp > t - lookback
    /\ InTimeOrder(window)

C22_WindowAsRead ==
    /\ \A k \in HistoryKeys : InTimeOrder(momHistory[k]) /\ InTimeOrder(revHistory[k])
    /\ (sigOp = "_analyze_momentum" /\ sigAnswer.kind = "price" /\ sigAnswer.value > 0) =>
          FreshWindow(momHistory[SymbolKey(sigToken)], sigAnswer.value, now, MomentumLookback)
    /\ (sigOp = "_analyze_mean_reversion" /\ sigAnswer.kind = "price" /\ sigAnswer.value > 0) =>
          FreshWindow(revHistory[SymbolKey(sigToken)], sigAnswer.value, now, ReversionLookback)

C22_OwnAppendOnly ==
    \A k \in HistoryKeys :
        /\ momHistory'[k] # momHistory[k] =>
              sigOp' = "_analyze_momentum" /\ k = SymbolKey(sigToken') /\ revHistory' = revHistory
        /\ revHistory'[k] # revHistory[k] =>
              sigOp' = "_analyze_mean_reversion" /\ k = SymbolKey(sigToken')
              /\ momHistory' = momHistory

\* C22: the window a generator computes a signal from is in time order, ends
\* with the sample appended by this call and holds no sample older than the
\* strategy's lookback (the pruning follows every append and precedes the
\* read); a strategy's window of an asset changes only by that strategy's own
\* analysis of that asset.
C22_WindowPrunedBeforeRead == []C22_WindowAsRead /\ [][C22_OwnAppendOnly]_vars

\* a momentum analysis at the last hour that read a window of two samples, the
\* older one just inside the lookback
C22_Witness ==
    /\ sigOp = "_analyze_momentum"
    /\ sigAnswer.kind = "price" /\ sigAnswer.value > 0
    /\ now = MaxTime
    /\ Len(momHistory[SymbolKey(sigToken)]) = 2
    /\ momHistory[SymbolKey(sigToken)][1].timestamp = now - MomentumLookback + 1

-----------------------------------------------------------------------------
(* Signals that become trades                                              *)

\* the signals of the last cycle for a symbol (the combiner leaves one)
SignalsFor(symbol) == { i \in 1..Len(sigOut) : sigOut[i].symbol = symbol }

\* C23: execute_trading_signals calls execute_trade for a signal only if its
\* action is buy or sell, its strength is above 0.1 and its position size is at
\* least the minimum trade amount; a hold or near-zero signal yields no trade.
C23_OnlyStrongSignalsTrade ==
    sigOp = "execute_trading_signals" =>
        /\ \A k \in 1..Len(sigTrades) :
              /\ sigTrades[k].action \in {"buy", "sell"}
              /\ RLe(R(MinTradeAmount), sigTrades[k].amount)
              /\ \E i \in SignalsFor(sigTrades[k].symbol) :
                    /\ sigOut[i].action = sigTrades[k].action
                    /\ RLt(Rat(1, 10), sigOut[i].strength)
        /\ \A i \in 1..Len(sigOut) :
              (sigOut[i].action = "hold" \/ RLe(sigOut[i].strength, Rat(1, 10))) =>
                  \A k \in 1..Len(sigTrades) : sigTrades[k].symbol # sigOut[i].symbol

\* a cycle whose signals held a hold that was left alone and a buy that was traded
C23_Witness ==
    /\ sigOp = "execute_trading_signals"
    /\ \E i \in 1..Len(sigOut) : sigOut[i].action = "hold"
    /\ \E k \in 1..Len(sigTrades) : sigTrades[k].action = "buy"

-----------------------------------------------------------------------------
(* Position sizing                                                         *)

\* the ratio of the symbol's category, 0.10 for a symbol the catalog does not know
C24_Ratio(symbol) ==
    IF GetTokenBySymbol(symbol) = NoToken THEN Rat(1, 10)
    ELSE GetPositionSizeRatio(GetTokenBySymbol(symbol))

\* C24: calculate_position_size returns min(capital x ratio x strength,
\* capital x max_position_size), the ratio being the category ratio for
\* Momentum and half of it for Mean-Reversion: the result never exceeds
\* capital x max_position_size, and when the Momentum size is not capped the
\* Mean-Reversion size is half of it.
C24_PositionSizeCapped ==
    sizing.kind = "sized" =>
        LET capital == R(sizing.available_capital)
            cap == RMul(capital, Rat(3, 10))
            full == RMul(RMul(capital, C24_Ratio(sizing.symbol)), sizing.strength)
            half == RMul(full, Rat(1, 2))
        IN  /\ sizing.momentum = (IF RLt(cap, full) THEN cap ELSE full)
            /\ sizing.reversion = (IF RLt(cap, half) THEN cap ELSE half)
            /\ RLe(sizing.momentum, cap) /\ RLe(sizing.reversion, cap)
            /\ RLt(sizing.momentum, cap) =>
                  sizing.reversion = RMul(sizing.momentum, Rat(1, 2))

\* a strength of 3 on a known token: the Momentum size is capped, the
\* Mean-Reversion size is not
C24_Witness ==
    /\ sizing.kind = "sized"
    /\ sizing.symbol = "WETH"
    /\ sizing.strength = R(3)
    /\ sizing.available_capital = 1000
    /\ sizing.momentum = R(300)
    /\ sizing.reversion = R(225)

-----------------------------------------------------------------------------
(* A failing analysis within a cycle                                       *)

\* the last sample of the window is the one of this cycle
AnalysedNow(window, answer) ==
    Len(window) >= 1 /\ window[Len(window)] = Sample(answer.value, now)

\* C25: in generate_combined_signals a failure while one asset is analysed
\* abandons only that asset's signal: every other asset is still analysed by
\* both strategies, its signal is among those handed to the combiner, and
\* the combined list is returned.
C25_FailureAbandonsOneAsset ==
    sigOp = "generate_combined_signals" =>
        /\ \A i \in 1..Len(Tradeable) :
              LET key == SymbolKey(Tradeable[i])
                  answer == sigAnswers[i]
              IN  (answer.kind = "price" /\ answer.value > 0) =>
                      /\ AnalysedNow(momHistory[key], answer)
                      /\ AnalysedNow(revHistory[key], answer)
                      /\ (~TooFewForMomentum(momHistory[key])
                          /\ Actionable(MomentumDecision(Tradeable[i], momHistory[key], now))) =>
                            \E s \in 1..Len(sigIn) :
                                sigIn[s] = MomentumDecision(Tradeable[i], momHistory[key], now)
        /\ \A s \in 1..Len(sigIn) : \E o \in 1..Len(sigOut) : sigOut[o].symbol = sigIn[s].symbol

\* the lookup of the first token raised, and a later token's buy signal was
\* produced and combined
C25_Witness ==
    /\ sigOp = "generate_combined_signals"
    /\ sigAnswers[1] = PriceRaises
    /\ \E o \in 1..Len(sigOut) :
          sigOut[o].action = "buy" /\ sigOut[o].symbol = Tradeable[Len(Tradeable)].symbol

-----------------------------------------------------------------------------
(* Drift, allocation and the direction of the trades                       *)

\* the entry of the last status mapping for the symbol
StatusOf(symbol) == status[CHOOSE i \in 1..Len(status) : status[i].symbol = symbol]

\* C26: every trade of calculate_rebalance_trades moves value from an asset
\* whose drift is above +rebalance_threshold to one whose drift is below
\* -rebalance_threshold: the sign of the USD difference agrees with the sign
\* of the drift whichever valuation path produced the status.
C26_TradesFollowDrift ==
    op = "calculate_rebalance_trades" =>
        \A k \in 1..Len(trades) :
            /\ RLt(Pct(config.rebalance_threshold), StatusOf(trades[k].from_symbol).drift)
            /\ RLt(StatusOf(trades[k].to_symbol).drift, RNeg(Pct(config.rebalance_threshold)))

\* the sum of the current allocations of the status, from the i-th entry on
RECURSIVE SumAllocations(_)
SumAllocations(i) ==
    IF i > Len(status) THEN Zero
    ELSE RAdd(status[i].current_allocation, SumAllocations(i + 1))

\* C27: in every status computed from non-negative values each
\* current_allocation lies in [0, 1] and the allocations of the configured
\* assets sum to at most 1, on the portfolio path and on the balances path.
C27_AllocationsWithinOne ==
    op = "get_portfolio_status" =>
        /\ \A i \in 1..Len(status) :
              /\ RLe(Zero, status[i].current_allocation)
              /\ RLe(status[i].current_allocation, One)
        /\ RLe(SumAllocations(1), One)

-----------------------------------------------------------------------------
(* What the price cache holds                                              *)

\* C28: the price cache only ever holds positive prices: after a lookup whose
\* upstream result was absent, the next call for the same key asks upstream
\* again instead of returning a cached absent value for the rest of the TTL.
C28_CacheHoldsValidPrices ==
    /\ \A key \in MarketKeys :
          priceCache[key].kind = "entry" =>
              priceCache[key].price.kind = "price" /\ priceCache[key].price.value > 0
    /\ (cacheCall.kind = "call" /\ cacheCall.before.kind = "entry"
        /\ cacheCall.before.price = PriceAbsent) => cacheCall.upstream = 1

\* C29: every signal the two generate_signals calls of a cycle return is a buy
\* or a sell of strength exactly 1.0; no hold is ever returned
C29_EmittedSignalsAtFullStrength ==
    sigOp = "generate_combined_signals" =>
        \A i \in 1..Len(sigIn) :
            /\ sigIn[i].action \in {"buy", "sell"}
            /\ sigIn[i].strength = One

\* a cycle on full windows in which Momentum emitted a buy and Mean-Reversion
\* a sell, and a third analysis held
C29_Witness ==
    /\ sigOp = "generate_combined_signals"
    /\ now >= MinReversionSamples
    /\ \E i, j \in 1..Len(sigIn) :
          /\ sigIn[i].action = "buy" /\ sigIn[j].action = "sell"
          /\ i < j
    /\ Len(sigIn) < 2 * Len(Tradeable)
    /\ \A k \in 1..Len(Tradeable) : sigAnswers[k].kind = "price"

\* the price of the source token of a signal trade: the cycle's answer for the
\* asset sold, 1 USD for the USDC a buy pays with
SourcePrice(tr) ==
    IF tr.action = "buy" THEN PriceOf(1)
    ELSE LET found == { i \in 1..Len(Tradeable) : Tradeable[i].symbol = tr.symbol }
         IN  sigAnswers[CHOOSE i \in found : \A j \in found : i <= j]

\* C30: the amount of every execute_trade call of a signal cycle is a quantity
\* of the source token: the USD position size of the traded signal divided by
\* the source token's positive price, never the USD amount itself
C30_AmountIsSourceQuantity ==
    sigOp = "execute_trading_signals" =>
        \A k \in 1..Len(sigTrades) :
            LET tr == sigTrades[k]
                price == SourcePrice(tr)
            IN  /\ price.kind = "price"
                /\ price.value > 0
                /\ \E c \in CapitalAnswers, i \in 1..Len(sigOut) :
                      /\ sigOut[i].symbol = tr.symbol
                      /\ tr.amount = RDiv(CalculatePositionSize(sigOut[i], c.total_value),
                                          R(price.value))
====
